---- MODULE Spec2Model ----
(***************************************************************************)
(* Model of the soccer game description formatter                          *)
(* (src/video_desc_from_yaml.py): parse_timestamp, split_team_name,        *)
(* abbreviate_title and soccer_game_description.                           *)
(*                                                                         *)
(* A Python str is a sequence of one-character strings.  A Python value    *)
(* that may be None, an int or a str is a record [t, n, s] whose tag t is  *)
(* "none", "int" or "str".                                                 *)
(***************************************************************************)
EXTENDS Integers, Sequences, FiniteSets, TLC

VARIABLES
    op,                \* the function being called
    pc,                \* position in the called function
    arg,               \* parse_timestamp: timestamp; abbreviate_title: title as passed
    game,              \* soccer_game_description: the Game argument
    goals,             \* soccer_game_description: the goals argument
    max_title_length,  \* the max_title_length argument
    i,                 \* loop index (goal loop, abbreviate_title loop)
    team_score,        \* local team_score
    descriptions,      \* local descriptions
    segments,          \* abbreviate_title: local segments
    title,             \* local title
    log,               \* records emitted on the module logger, in order
    exc,               \* the exception that left the call, or ""
    result,            \* the returned value, NoResult until the call returns
    strings,           \* parse_all_fields: local strings
    exc_msg,           \* parse_all_fields: the message of the exception in exc
    yaml_files,        \* parse_log_files_to_dataframe: the yaml_files argument
    logs_dict,         \* parse_log_files_to_dataframe: local logs_dict
    calls,             \* concurrent calls: the arguments and locals of each call
    scoring_abbrev_dict \* concurrent calls: the module-level table scoring_abbrev

parserVars == <<strings, exc_msg>>
tableVars == <<yaml_files, logs_dict>>
concurrentVars == <<calls, scoring_abbrev_dict>>

vars == <<op, pc, arg, game, goals, max_title_length, i, team_score,
          descriptions, segments, title, log, exc, result,
          parserVars, tableVars, concurrentVars>>

-----------------------------------------------------------------------------
(* Python values                                                           *)

NoneVal == [t |-> "none", n |-> 0, s |-> <<>>]
IntVal(k) == [t |-> "int", n |-> k, s |-> <<>>]
StrVal(str) == [t |-> "str", n |-> 0, s |-> str]

NoResult == [t |-> "noresult", n |-> 0, s |-> <<>>]

-----------------------------------------------------------------------------
(* str operations                                                          *)

DigitChars == <<"0", "1", "2", "3", "4", "5", "6", "7", "8", "9">>
IsDigit(c) == \E d \in 1..10 : DigitChars[d] = c

LowerChars == <<"a", "b", "c", "d", "e", "f", "g", "h", "i", "j", "k", "l", "m",
                "n", "o", "p", "q", "r", "s", "t", "u", "v", "w", "x", "y", "z">>
UpperChars == <<"A", "B", "C", "D", "E", "F", "G", "H", "I", "J", "K", "L", "M",
                "N", "O", "P", "Q", "R", "S", "T", "U", "V", "W", "X", "Y", "Z">>

\* the characters str.strip() and the regular expression class \s remove
Whitespace == {" ", "\n", "\t", "\r"}

\* str(n) for an int n >= 0
RECURSIVE IntToStr(_)
IntToStr(n) ==
    IF n < 10 THEN <<DigitChars[n + 1]>>
    ELSE IntToStr(n \div 10) \o <<DigitChars[(n % 10) + 1]>>

\* "%02d" % n
ZeroPad2(n) == IF n < 10 THEN <<"0">> \o IntToStr(n) ELSE IntToStr(n)

\* "%04d" % n
ZeroPad4(n) ==
    LET d == IntToStr(n)
    IN  [k \in 1..(4 - Len(d)) |-> "0"] \o d

\* c.upper() for one character
UpperChar(c) ==
    IF \E k \in 1..26 : LowerChars[k] = c
    THEN UpperChars[CHOOSE k \in 1..26 : LowerChars[k] = c]
    ELSE c

\* s.upper()
Upper(s) == [k \in 1..Len(s) |-> UpperChar(s[k])]

\* s.lstrip(chars)
RECURSIVE LStripChars(_, _)
LStripChars(s, chars) ==
    IF s # <<>> /\ Head(s) \in chars THEN LStripChars(Tail(s), chars) ELSE s

\* s.rstrip(chars)
RECURSIVE RStripChars(_, _)
RStripChars(s, chars) ==
    IF s # <<>> /\ s[Len(s)] \in chars
    THEN RStripChars(SubSeq(s, 1, Len(s) - 1), chars)
    ELSE s

\* s.rstrip()
RStrip(s) == RStripChars(s, Whitespace)

\* s.strip()
Strip(s) == LStripChars(RStripChars(s, Whitespace), Whitespace)

\* s.split(c) for a one-character separator c: always at least one piece
RECURSIVE Split(_, _)
Split(s, c) ==
    IF \E k \in 1..Len(s) : s[k] = c
    THEN LET p == CHOOSE k \in 1..Len(s) :
                      s[k] = c /\ \A j \in 1..(k - 1) : s[j] # c
         IN  <<SubSeq(s, 1, p - 1)>> \o Split(SubSeq(s, p + 1, Len(s)), c)
    ELSE <<s>>

\* sep.join(pieces)
RECURSIVE Join(_, _)
Join(pieces, sep) ==
    IF pieces = <<>> THEN <<>>
    ELSE IF Len(pieces) = 1 THEN pieces[1]
    ELSE pieces[1] \o sep \o Join(Tail(pieces), sep)

\* str(v), as an f-string renders a value that is None, an int or a str
Format(v) ==
    CASE v.t = "none" -> <<"N", "o", "n", "e">>
      [] v.t = "int" -> IntToStr(v.n)
      [] OTHER -> v.s

-----------------------------------------------------------------------------
(* parse_timestamp                                                         *)

\* str(timedelta(seconds=n)) for n >= 0: "[D day[s], ]H:MM:SS"
TimedeltaStr(n) ==
    LET days == n \div 86400
        rest == n % 86400
        hh == rest \div 3600
        mm == (rest % 3600) \div 60
        ss == rest % 60
        plural == IF days = 1 THEN <<>> ELSE <<"s">>
        prefix == IF days = 0 THEN <<>>
                  ELSE IntToStr(days) \o <<" ", "d", "a", "y">> \o plural \o <<",", " ">>
    IN  prefix \o IntToStr(hh) \o <<":">> \o ZeroPad2(mm) \o <<":">> \o ZeroPad2(ss)

parse_timestamp(timestamp) ==
    IF timestamp.t = "str" THEN timestamp.s
    ELSE LStripChars(Join(Tail(Split(TimedeltaStr(timestamp.n), ":")), <<":">>), {"0"})

-----------------------------------------------------------------------------
(* split_team_name                                                         *)

\* the pattern \s*[BG]?\d{2,4}[BG]?\s* matches starting at position p
\* faulty variant: the pattern of soccer_video_desc.py, with no letter before the digits
MarkerMatchesAt_NoLeadingLetter(s, p) ==
    \E j \in p..Len(s) :
        /\ \A k \in p..(j - 1) : s[k] \in Whitespace
        /\ j + 1 <= Len(s)
        /\ IsDigit(s[j]) /\ IsDigit(s[j + 1])

MarkerMatchesAt(s, p) ==
    \E j \in p..Len(s) :
        /\ \A k \in p..(j - 1) : s[k] \in Whitespace
        /\ \/ /\ j + 1 <= Len(s)
              /\ IsDigit(s[j]) /\ IsDigit(s[j + 1])
           \/ /\ j + 2 <= Len(s)
              /\ s[j] \in {"B", "G"}
              /\ IsDigit(s[j + 1]) /\ IsDigit(s[j + 2])

\* re.split(pattern, team_name)[0]: the text before the leftmost match
split_team_name(team_name) ==
    IF \E p \in 1..Len(team_name) : MarkerMatchesAt(team_name, p)
    THEN LET p == CHOOSE q \in 1..Len(team_name) :
                      /\ MarkerMatchesAt(team_name, q)
                      /\ \A r \in 1..(q - 1) : ~MarkerMatchesAt(team_name, r)
         IN  SubSeq(team_name, 1, p - 1)
    ELSE team_name

-----------------------------------------------------------------------------
(* abbreviate_title                                                        *)

DefaultMaxTitleLength == 100

\* faulty variant: the loop never ends early
AbbrevFits_Never(t, limit) == FALSE

\* faulty variant: the loop goes on until the title is shorter than the limit
AbbrevFits_Strict(t, limit) == Len(t) < limit

\* the loop condition that ends the loop early
AbbrevFits(t, limit) == Len(t) <= limit

\* one pass of the loop body for index k (1-based; Python's i is k - 1)
AbbrevBody(st, k) ==
    LET segs1 == [st.segments EXCEPT ![k] = Strip(st.segments[k])]
        segs2 == [segs1 EXCEPT ![k - 1] = RStrip(segs1[k - 1])]
    IN  [segments |-> segs2, title |-> Join(segs2, <<"|">>)]

\* the loop "for i in range(len(segments) - 1, 0, -1)" from index k down
RECURSIVE AbbrevLoop(_, _, _)
AbbrevLoop(st, k, limit) ==
    IF k < 2 \/ AbbrevFits(st.title, limit) THEN st.title
    ELSE AbbrevLoop(AbbrevBody(st, k), k - 1, limit)

abbreviate_title(t, limit) ==
    LET segs == Split(t, "|")
    IN  AbbrevLoop([segments |-> segs, title |-> t], Len(segs), limit)

-----------------------------------------------------------------------------
(* soccer_game_description: the pieces of one goal line                    *)

scoring_abbrev_keys == {<<"P", "K">>, <<"F", "K">>, <<"O", "G">>, <<"C", "K">>}

\* scoring_abbrev[key], for a key of the table
scoring_abbrev(key) ==
    CASE key = <<"P", "K">> ->
             <<"p", "e", "n", "a", "l", "t", "y", " ", "k", "i", "c", "k">>
      [] key = <<"F", "K">> -> <<"f", "r", "e", "e", " ", "k", "i", "c", "k">>
      [] key = <<"O", "G">> -> <<"o", "w", "n", " ", "g", "o", "a", "l">>
      [] key = <<"C", "K">> ->
             <<"c", "o", "r", "n", "e", "r", " ", "k", "i", "c", "k">>

\* truth value of an optional str ("if game.home_team_abbrev")
Truthy(v) == v.t = "str" /\ v.s # <<>>

team_dict(g) == [H |-> g.home_team, A |-> g.away_team]

\* faulty variant: the explicit abbreviations are ignored
team_short_dict_NoAbbrev(g) ==
    [H |-> split_team_name(g.home_team), A |-> split_team_name(g.away_team)]

team_short_dict(g) ==
    [H |-> IF Truthy(g.home_team_abbrev) THEN g.home_team_abbrev.s
           ELSE split_team_name(g.home_team),
     A |-> IF Truthy(g.away_team_abbrev) THEN g.away_team_abbrev.s
           ELSE split_team_name(g.away_team)]

\* faulty variant: a score table that accepts any key, so nothing is raised
ScoringTeamRaises_AnyKey(goal) == FALSE

\* "team_score[goal.scoring_team] += 1" raises KeyError
ScoringTeamRaises(goal) == goal.scoring_team \notin {"H", "A"}

IncrementScore(score, team) == [score EXCEPT ![team] = @ + 1]

\* faulty variant: the brackets go around the side that did not score
scoreline_str_Swapped(goal, score) ==
    IF goal.scoring_team = "A"
    THEN <<"[">> \o IntToStr(score.H) \o <<"]", "-">> \o IntToStr(score.A)
    ELSE IntToStr(score.H) \o <<"-", "[">> \o IntToStr(score.A) \o <<"]">>

scoreline_str(goal, score) ==
    IF goal.scoring_team = "H"
    THEN <<"[">> \o IntToStr(score.H) \o <<"]", "-">> \o IntToStr(score.A)
    ELSE IntToStr(score.H) \o <<"-", "[">> \o IntToStr(score.A) \o <<"]">>

\* faulty variant: every scorer is rendered as a jersey number
scoring_player_str_Hash(goal) == <<"#">> \o Format(goal.scoring_player)

scoring_player_str(goal) ==
    IF goal.scoring_player.t = "int"
    THEN <<"#">> \o IntToStr(goal.scoring_player.n)
    ELSE Format(goal.scoring_player)

\* the test "goal.assist_player.upper() in scoring_abbrev.keys()"
IsShorthand(assist) == Upper(assist.s) \in scoring_abbrev_keys

\* the key looked up by "scoring_abbrev[goal.assist_player]"
ShorthandLookupKey(assist) == assist.s

\* the lookup "scoring_abbrev[...]" raises KeyError
AssistRaises(goal) ==
    /\ goal.assist_player.t = "str"
    /\ IsShorthand(goal.assist_player)
    /\ ShorthandLookupKey(goal.assist_player) \notin scoring_abbrev_keys

AssistFrom == <<"(", "a", "s", "s", "i", "s", "t", " ", "f", "r", "o", "m", " ">>

\* what the assist branch appends to the goal line
assist_player_str(goal) ==
    LET a == goal.assist_player
    IN  CASE a.t = "none" -> <<>>
          [] a.t = "int" -> <<" ">> \o AssistFrom \o <<"#">> \o IntToStr(a.n) \o <<")">>
          [] a.t = "str" /\ IsShorthand(a) ->
                 <<" ", "(">> \o scoring_abbrev(ShorthandLookupKey(a)) \o <<")">>
          [] OTHER -> <<" ">> \o AssistFrom \o a.s \o <<")">>

minute_str(goal) ==
    IF goal.minute.t # "none" THEN <<" ">> \o Format(goal.minute) \o <<"'">> ELSE <<>>

\* the goal line appended to descriptions; score is team_score after the increment
GoalDescription(g, goal, score) ==
    parse_timestamp(goal.timestamp) \o <<" ">>
    \o team_short_dict(g).H \o <<" ">> \o scoreline_str(goal, score) \o <<" ">>
    \o team_short_dict(g).A
    \o <<" ", "-", " ">> \o scoring_player_str(goal)
    \o assist_player_str(goal)
    \o minute_str(goal)

-----------------------------------------------------------------------------
(* soccer_game_description: title, subtitle, result                        *)

\* str(game.date)
DateStr(d) == ZeroPad4(d.y) \o <<"-">> \o ZeroPad2(d.m) \o <<"-">> \o ZeroPad2(d.d)

\* faulty variant: the final scoreline carries the short display names
final_scoreline_Short(g, score) ==
    team_short_dict(g).H \o <<" ">> \o IntToStr(score.H) \o <<"-">> \o IntToStr(score.A)
    \o <<" ">> \o team_short_dict(g).A

final_scoreline(g, score) ==
    team_dict(g).H \o <<" ">> \o IntToStr(score.H) \o <<"-">> \o IntToStr(score.A)
    \o <<" ">> \o team_dict(g).A

title_segments(g, score) ==
    IF g.round.t # "none"
    THEN <<final_scoreline(g, score), g.division, g.round.s, DateStr(g.date)>>
    ELSE <<final_scoreline(g, score), g.division, DateStr(g.date)>>

\* " | ".join(title_segments) + "\n"
JoinedTitle(g, score) == Join(title_segments(g, score), <<" ", "|", " ">>) \o <<"\n">>

\* the test "len(title) > max_title_length + 1"
TitleTooLong(t, limit) == Len(t) > limit + 1

\* the call "abbreviate_title(title)" made by soccer_game_description
AbbreviateCall(t, limit) == abbreviate_title(t, DefaultMaxTitleLength)

\* new_title = abbreviate_title(title) + "\n"
NewTitle(t, limit) == AbbreviateCall(t, limit) \o <<"\n">>

\* faulty variant: the warning is logged only when abbreviation does not help
TitleLog_OnlyUnfit(t, limit) ==
    IF TitleTooLong(t, limit)
    THEN IF TitleTooLong(NewTitle(t, limit), limit) THEN <<"warning">>
         ELSE <<"info">>
    ELSE <<>>

\* the records logged while the title is composed
TitleLog(t, limit) ==
    IF TitleTooLong(t, limit)
    THEN IF TitleTooLong(NewTitle(t, limit), limit) THEN <<"warning">>
         ELSE <<"warning", "info">>
    ELSE <<>>

\* faulty variant: the abbreviated title is emitted even when it does not fit
FinalTitle_AlwaysAbbreviated(t, limit) ==
    IF TitleTooLong(t, limit) THEN NewTitle(t, limit) ELSE t

\* title after the length check
FinalTitle(t, limit) ==
    IF TitleTooLong(t, limit) /\ ~TitleTooLong(NewTitle(t, limit), limit)
    THEN NewTitle(t, limit)
    ELSE t

subtitle(g) ==
    DateStr(g.date) \o <<" ">> \o g.division
    \o (IF g.round.t # "none" THEN <<" ", "(">> \o g.round.s \o <<")", "\n">>
        ELSE <<"\n">>)

\* "\n".join(all_strings)
Description(t, g, score, descs) ==
    Join(<<t, subtitle(g), final_scoreline(g, score) \o <<"\n">>>> \o descs, <<"\n">>)

-----------------------------------------------------------------------------
(* video_desc_to_yaml: the parser                                          *)

\* s.find(sub) + 1: where sub first occurs in s, 0 when it does not
Find(s, sub) ==
    IF \E p \in 1..(Len(s) - Len(sub) + 1) : SubSeq(s, p, p + Len(sub) - 1) = sub
    THEN CHOOSE p \in 1..(Len(s) - Len(sub) + 1) :
             /\ SubSeq(s, p, p + Len(sub) - 1) = sub
             /\ \A q \in 1..(p - 1) : SubSeq(s, q, q + Len(sub) - 1) # sub
    ELSE 0

\* the character of s at k, "" past the end
CharAt(s, k) == IF k <= Len(s) THEN s[k] ELSE ""

MinOf(S) == CHOOSE x \in S : \A y \in S : x <= y
MaxOf(S) == CHOOSE x \in S : \A y \in S : x >= y

\* the least element of S that is at least from, 0 when there is none
FirstFrom(S, from) == IF \E p \in S : p >= from THEN MinOf({p \in S : p >= from}) ELSE 0

\* s.split(sep, 1): two pieces, or the whole of s when sep does not occur
SplitAt(s, sep, p) ==
    IF p = 0 THEN <<s>>
    ELSE <<SubSeq(s, 1, p - 1), SubSeq(s, p + Len(sep), Len(s))>>
SplitOnce(s, sep) == SplitAt(s, sep, Find(s, sep))

\* the int a text of digits stands for
RECURSIVE DigitsToInt(_)
DigitsToInt(s) ==
    IF s = <<>> THEN 0
    ELSE 10 * DigitsToInt(SubSeq(s, 1, Len(s) - 1))
         + (CHOOSE d \in 0..9 : DigitChars[d + 1] = s[Len(s)])

AllDigits(s) == s # <<>> /\ \A k \in 1..Len(s) : IsDigit(s[k])

split_multiline_string(string) ==
    LET lines == Split(string, "\n")
        stripped == [k \in 1..Len(lines) |-> Strip(lines[k])]
    IN  SelectSeq(stripped, LAMBDA l : Len(l) > 0)

DaysInMonth(y, m) ==
    IF m = 2
    THEN (IF y % 4 = 0 /\ (y % 100 # 0 \/ y % 400 = 0) THEN 29 ELSE 28)
    ELSE IF m \in {4, 6, 9, 11} THEN 30 ELSE 31

\* whether date.fromisoformat accepts the text as YYYY-MM-DD (the other
\* shapes that later Python versions accept are not among the inputs)
IsIsoDate(s) ==
    /\ Len(s) = 10
    /\ s[5] = "-" /\ s[8] = "-"
    /\ AllDigits(SubSeq(s, 1, 4)) /\ AllDigits(SubSeq(s, 6, 7)) /\ AllDigits(SubSeq(s, 9, 10))
    /\ DigitsToInt(SubSeq(s, 1, 4)) >= 1
    /\ DigitsToInt(SubSeq(s, 6, 7)) \in 1..12
    /\ DigitsToInt(SubSeq(s, 9, 10)) \in
           1..DaysInMonth(DigitsToInt(SubSeq(s, 1, 4)), DigitsToInt(SubSeq(s, 6, 7)))

fromisoformat(s) ==
    [y |-> DigitsToInt(SubSeq(s, 1, 4)), m |-> DigitsToInt(SubSeq(s, 6, 7)),
     d |-> DigitsToInt(SubSeq(s, 9, 10))]

\* the outcome of a parsing function: the exception it raises ("" for none),
\* the exception's message, and the value it returns
Raise(type, message) == [exc |-> type, msg |-> message, val |-> NoneVal]
Return(value) == [exc |-> "", msg |-> <<>>, val |-> value]

TitleErrorMessage(string) ==
    <<"T", "i", "t", "l", "e", " ", "s", "t", "r", "i", "n", "g", " ">> \o string
    \o <<" ", "m", "u", "s", "t", " ", "c", "o", "n", "t", "a", "i", "n", " ", "a", " ",
         "d", "a", "t", "e", " ", "a", "n", "d", " ", "a", " ",
         "d", "i", "v", "i", "s", "i", "o", "n", ".">>

TitleFrom(string, parts) ==
    IF Len(parts) = 2 /\ IsIsoDate(parts[1])
    THEN Return([date |-> fromisoformat(parts[1]), division |-> parts[2]])
    ELSE Raise("ValueError", TitleErrorMessage(string))
parse_title(string) == TitleFrom(string, SplitOnce(string, <<" ">>))

IndexMessage ==
    <<"l", "i", "s", "t", " ", "i", "n", "d", "e", "x", " ", "o", "u", "t", " ", "o", "f",
      " ", "r", "a", "n", "g", "e">>

\* the separator between the two numbers of the scoreline pattern
ScoreSeparators == {":"}

\* the lengths that \d{1,2} and \s? match at k (0 for no digit, no blank)
DigitRun(s, k) ==
    IF IsDigit(CharAt(s, k)) /\ IsDigit(CharAt(s, k + 1)) THEN 2
    ELSE IF IsDigit(CharAt(s, k)) THEN 1
    ELSE 0
BlankRun(s, k) == IF CharAt(s, k) \in Whitespace THEN 1 ELSE 0

\* the length of the match of r"\s\d{1,2}\s?:\s?\d{1,2}\s" at p, 0 for no
\* match: the blank, the first number, the separator at c, the second number
\* at n, the closing blank
ScoreEnd(s, p, n, d2) ==
    IF d2 > 0 /\ CharAt(s, n + d2) \in Whitespace THEN n + d2 - p + 1 ELSE 0
ScoreFromSep(s, p, c) ==
    IF CharAt(s, c) \in ScoreSeparators
    THEN ScoreEnd(s, p, c + 1 + BlankRun(s, c + 1), DigitRun(s, c + 1 + BlankRun(s, c + 1)))
    ELSE 0
ScoreFromDigits(s, p, d1) ==
    IF d1 = 0 THEN 0 ELSE ScoreFromSep(s, p, p + 1 + d1 + BlankRun(s, p + 1 + d1))
ScoreMatchLen(s, p) ==
    IF CharAt(s, p) \in Whitespace THEN ScoreFromDigits(s, p, DigitRun(s, p + 1)) ELSE 0

\* the places where the pattern matches
ScoreMatches(s) == {p \in 1..Len(s) : ScoreMatchLen(s, p) > 0}

\* teams = re.split(pattern, scoreline); (teams[0], teams[1]): the text before
\* the first match at p and the text from after up to the next match
TeamsBetween(s, p, after, next) ==
    Return([home_team |-> SubSeq(s, 1, p - 1),
            away_team |-> SubSeq(s, after, IF next = 0 THEN Len(s) ELSE next - 1)])
TeamsAt(s, matches, p, after) == TeamsBetween(s, p, after, FirstFrom(matches, after))
TeamsAround(s, matches) ==
    IF matches = {} THEN Raise("IndexError", IndexMessage)
    ELSE TeamsAt(s, matches, MinOf(matches), MinOf(matches) + ScoreMatchLen(s, MinOf(matches)))
parse_team(scoreline) == TeamsAround(scoreline, ScoreMatches(scoreline))

\* the characters of the inputs in code-point order, as str comparison orders them
CodePointOrder ==
    <<"\t", "\n", "\r", " ", "!", "\"", "#", "$", "%", "&", "'", "(", ")", "*", "+",
      ",", "-", ".", "/", "0", "1", "2", "3", "4", "5", "6", "7", "8", "9", ":", ";",
      "<", "=", ">", "?", "@", "A", "B", "C", "D", "E", "F", "G", "H", "I", "J", "K",
      "L", "M", "N", "O", "P", "Q", "R", "S", "T", "U", "V", "W", "X", "Y", "Z", "[",
      "\\", "]", "^", "_", "a", "b", "c", "d", "e", "f", "g", "h", "i", "j", "k",
      "l", "m", "n", "o", "p", "q", "r", "s", "t", "u", "v", "w", "x", "y", "z", "{",
      "|", "}", "~">>
Ord(c) == CHOOSE k \in 1..Len(CodePointOrder) : CodePointOrder[k] = c

\* a > b for two str
RECURSIVE StrGreater(_, _)
StrGreater(a, b) ==
    IF a = <<>> THEN FALSE
    ELSE IF b = <<>> THEN TRUE
    ELSE IF Head(a) # Head(b) THEN Ord(Head(a)) > Ord(Head(b))
    ELSE StrGreater(Tail(a), Tail(b))

\* a[x:x+k] == b[y:y+k]
CommonAt(a, b, x, y, k) == SubSeq(a, x, x + k - 1) = SubSeq(b, y, y + k - 1)

\* the length of the longest block that a and b have in common
LongestMatch(a, b) ==
    MaxOf({k \in 0..Len(a) :
              \E x \in 1..(Len(a) - k + 1), y \in 1..(Len(b) - k + 1) : CommonAt(a, b, x, y, k)})

\* SequenceMatcher: the number of matched characters, from the longest common
\* block (the earliest in a, then the earliest in b) and the pieces on its two sides
RECURSIVE MatchCount(_, _)
MatchSides(a, b, k, x, y) ==
    k + MatchCount(SubSeq(a, 1, x - 1), SubSeq(b, 1, y - 1))
      + MatchCount(SubSeq(a, x + k, Len(a)), SubSeq(b, y + k, Len(b)))
MatchAround(a, b, k, x) ==
    MatchSides(a, b, k, x, MinOf({y \in 1..(Len(b) - k + 1) : CommonAt(a, b, x, y, k)}))
MatchBlocks(a, b, k) ==
    IF k = 0 THEN 0
    ELSE MatchAround(a, b, k,
                     MinOf({x \in 1..(Len(a) - k + 1) :
                               \E y \in 1..(Len(b) - k + 1) : CommonAt(a, b, x, y, k)}))
MatchCount(a, b) == MatchBlocks(a, b, LongestMatch(a, b))

\* SequenceMatcher(a=x, b=word).ratio() as a fraction: 2 * matches / total length
Ratio(x, word) ==
    IF Len(x) + Len(word) = 0 THEN [num |-> 1, den |-> 1]
    ELSE [num |-> 2 * MatchCount(x, word), den |-> Len(x) + Len(word)]

\* ratio() >= cutoff for the cutoff 0.25 of parse_goal
CloseEnough(ratio) == 4 * ratio.num >= ratio.den

\* get_close_matches(word, [home_team, away_team], n=1, cutoff=0.25): the best
\* of the close enough teams by (ratio, name), the first one on a full tie
BestMatch(home_team, away_team, rh, ra) ==
    IF CloseEnough(rh) /\ CloseEnough(ra)
    THEN (IF \/ ra.num * rh.den > rh.num * ra.den
             \/ /\ ra.num * rh.den = rh.num * ra.den
                /\ StrGreater(away_team, home_team)
          THEN <<away_team>> ELSE <<home_team>>)
    ELSE IF CloseEnough(rh) THEN <<home_team>>
    ELSE IF CloseEnough(ra) THEN <<away_team>>
    ELSE <<>>
get_close_matches(word, home_team, away_team) ==
    BestMatch(home_team, away_team, Ratio(home_team, word), Ratio(away_team, word))

\* re.split(r"\)\s?:", s)
ParenColonLen(s, p) ==
    IF CharAt(s, p) = ")" /\ CharAt(s, p + 1) \in Whitespace /\ CharAt(s, p + 2) = ":" THEN 3
    ELSE IF CharAt(s, p) = ")" /\ CharAt(s, p + 1) = ":" THEN 2
    ELSE 0
RECURSIVE ParenColonSplit(_)
ParenColonCut(s, p) ==
    <<SubSeq(s, 1, p - 1)>> \o ParenColonSplit(SubSeq(s, p + ParenColonLen(s, p), Len(s)))
ParenColonFrom(s, matches) == IF matches = {} THEN <<s>> ELSE ParenColonCut(s, MinOf(matches))
ParenColonSplit(s) == ParenColonFrom(s, {p \in 1..Len(s) : ParenColonLen(s, p) > 0})

\* whether int() accepts the text: digits with an optional sign, blanks around
\* them (underscores between digits are not among the inputs)
IntBody(text) ==
    LET t == Strip(text)
    IN  IF t # <<>> /\ Head(t) \in {"+", "-"} THEN Tail(t) ELSE t
IsIntLiteral(text) == AllDigits(IntBody(text))
ParseInt(text) ==
    IF Strip(text) # <<>> /\ Head(Strip(text)) = "-"
    THEN 0 - DigitsToInt(IntBody(text))
    ELSE DigitsToInt(IntBody(text))

\* repr(s) of a str without quotes or escapes in it
Repr(str) == <<"'">> \o str \o <<"'">>

UnpackMessage(got) ==
    IF got < 2
    THEN <<"n", "o", "t", " ", "e", "n", "o", "u", "g", "h", " ", "v", "a", "l", "u",
           "e", "s", " ", "t", "o", " ", "u", "n", "p", "a", "c", "k", " ", "(", "e",
           "x", "p", "e", "c", "t", "e", "d", " ", "2", ",", " ", "g", "o", "t", " ">>
         \o IntToStr(got) \o <<")">>
    ELSE <<"t", "o", "o", " ", "m", "a", "n", "y", " ", "v", "a", "l", "u", "e", "s",
           " ", "t", "o", " ", "u", "n", "p", "a", "c", "k", " ", "(", "e", "x", "p",
           "e", "c", "t", "e", "d", " ", "2", ")">>
IntMessage(text) ==
    <<"i", "n", "v", "a", "l", "i", "d", " ", "l", "i", "t", "e", "r", "a", "l", " ",
      "f", "o", "r", " ", "i", "n", "t", "(", ")", " ", "w", "i", "t", "h", " ", "b",
      "a", "s", "e", " ", "1", "0", ":", " ">>
    \o Repr(text)
NotATeamMessage(matched, home_team, away_team) ==
    <<"s", "c", "o", "r", "i", "n", "g", "_", "t", "e", "a", "m", "=">> \o Repr(matched)
    \o <<" ", "i", "s", " ", "n", "o", "t", " ", "o", "n", "e", " ", "o", "f", " ",
         "t", "h", "e", " ", "g", "a", "m", "e", " ", "t", "e", "a", "m", "s", ":",
         " ">>
    \o <<"h", "o", "m", "e", "_", "t", "e", "a", "m", "=">> \o Repr(home_team)
    \o <<",", " ", "a", "w", "a", "y", "_", "t", "e", "a", "m", "=">> \o Repr(away_team) \o <<".">>

\* Goal(...), the dataclass constructor
Goal(timestamp, scoring_team, scoring_player, assist_player, minute) ==
    [timestamp |-> timestamp, scoring_team |-> scoring_team,
     scoring_player |-> scoring_player, assist_player |-> assist_player,
     minute |-> minute]

\* a player text: "#<n>" becomes the int n
PlayerRaises(player) ==
    player.t = "str" /\ player.s # <<>> /\ Head(player.s) = "#" /\ ~IsIntLiteral(Tail(player.s))
PlayerValue(player) ==
    IF player.t = "str" /\ player.s # <<>> /\ Head(player.s) = "#"
    THEN IntVal(ParseInt(Tail(player.s)))
    ELSE player

AssistWords == <<"a", "s", "s", "i", "s", "t", " ", "f", "r", "o", "m">>
AssistSep == <<" ", "(">> \o AssistWords \o <<" ">>

\* parse_goal from line 91 on: the team match and the player numbers
GoalMatched(timestamp, matches, scoring_player, assist_player, home_team, away_team) ==
    IF matches = <<>> THEN Raise("IndexError", IndexMessage)
    ELSE IF matches[1] # home_team /\ matches[1] # away_team
    THEN Raise("ValueError", NotATeamMessage(matches[1], home_team, away_team))
    ELSE IF PlayerRaises(StrVal(scoring_player))
    THEN Raise("ValueError", IntMessage(Tail(scoring_player)))
    ELSE IF PlayerRaises(assist_player)
    THEN Raise("ValueError", IntMessage(Tail(assist_player.s)))
    ELSE Return(Goal(StrVal(timestamp),
                     IF matches[1] = home_team THEN "H" ELSE "A",
                     PlayerValue(StrVal(scoring_player)),
                     PlayerValue(assist_player), NoneVal))

\* lines 86-89: an " (assist from " left in rest replaces the assist
GoalPlayers(timestamp, token, scoring_player, assist_player, rest, home_team, away_team) ==
    GoalMatched(timestamp, get_close_matches(token, home_team, away_team), scoring_player,
                IF Find(rest, AssistSep) > 0
                THEN StrVal(RStripChars(Strip(SplitOnce(rest, AssistSep)[1]), {")"}))
                ELSE assist_player,
                home_team, away_team)

\* lines 78-80: the scorer, then the assist and the rest around r"\)\s?:"
GoalAssistPieces(timestamp, token, scoring_player, pieces, home_team, away_team) ==
    IF Len(pieces) # 2 THEN Raise("ValueError", UnpackMessage(Len(pieces)))
    ELSE GoalPlayers(timestamp, token, scoring_player, StrVal(pieces[1]), pieces[2],
                     home_team, away_team)
GoalWithAssist(timestamp, token, byAssist, home_team, away_team) ==
    IF Len(byAssist) # 2 THEN Raise("ValueError", UnpackMessage(Len(byAssist)))
    ELSE GoalAssistPieces(timestamp, token, byAssist[1], ParenColonSplit(byAssist[2]),
                          home_team, away_team)

\* lines 77-83: with "assist from" in rest or without
GoalFields(timestamp, token, rest, home_team, away_team) ==
    IF Find(rest, AssistWords) > 0
    THEN GoalWithAssist(timestamp, token, SplitOnce(rest, AssistSep), home_team, away_team)
    ELSE GoalPlayers(timestamp, token, Strip(Split(rest, ":")[1]), NoneVal, rest,
                     home_team, away_team)

\* lines 75-76: the timestamp, then the scoring team before " - "
GoalFromBody(timestamp, body, home_team, away_team) ==
    IF Len(body) # 2 THEN Raise("ValueError", UnpackMessage(Len(body)))
    ELSE GoalFields(timestamp, body[1], body[2], home_team, away_team)
GoalFromHead(head, home_team, away_team) ==
    IF Len(head) # 2 THEN Raise("ValueError", UnpackMessage(Len(head)))
    ELSE GoalFromBody(head[1], SplitOnce(head[2], <<" ", "-", " ">>), home_team, away_team)
parse_goal(string, home_team, away_team) ==
    GoalFromHead(SplitOnce(string, <<" ">>), home_team, away_team)

\* faulty variant: only the two-digit minute form MM:SS is a goal line
StartsWithTimestamp_TwoDigitMinutes(string) ==
    /\ Len(string) >= 5
    /\ IsDigit(string[1]) /\ IsDigit(string[2]) /\ string[3] = ":"
    /\ IsDigit(string[4]) /\ IsDigit(string[5])

\* re.match(r"^\d{1,2}:\d{2}", string)
StartsWithTimestamp(string) ==
    \/ /\ IsDigit(CharAt(string, 1)) /\ CharAt(string, 2) = ":"
       /\ IsDigit(CharAt(string, 3)) /\ IsDigit(CharAt(string, 4))
    \/ /\ IsDigit(CharAt(string, 1)) /\ IsDigit(CharAt(string, 2)) /\ CharAt(string, 3) = ":"
       /\ IsDigit(CharAt(string, 4)) /\ IsDigit(CharAt(string, 5))

\* Game(date=..., division=..., home_team=..., away_team=...)
Game(d, division, home_team, away_team) ==
    [date |-> d, division |-> division, home_team |-> home_team,
     away_team |-> away_team, round |-> NoneVal,
     home_team_abbrev |-> NoneVal, away_team_abbrev |-> NoneVal]

-----------------------------------------------------------------------------
(* game_log_table_from_yaml: the table of goals                            *)
(* A dict is a function whose DOMAIN is its set of keys.                   *)

YamlSuffix == <<".", "y", "a", "m", "l">>

\* logs_dict[column].append(value) on a defaultdict(list)
AppendTo(d, column, value) ==
    [c \in DOMAIN d \cup {column} |->
        IF c # column THEN d[c]
        ELSE IF column \in DOMAIN d THEN Append(d[column], value) ELSE <<value>>]

\* game_log["home_team"] if goal["scoring_team"] == "H" else game_log["away_team"]
scoring_team_name(game_log, goal) ==
    IF goal.scoring_team = "H" THEN game_log.home_team ELSE game_log.away_team

\* the appends of one pass of the goal loop, in order: the column, the keys
\* that the value reads from game_log and from goal, and the value
RowAppends(yaml_file, goal) ==
    LET game_log == yaml_file.game_log
        from_log(column) ==
            [column |-> column, log_keys |-> {column}, goal_keys |-> {},
             value |-> IF column \in DOMAIN game_log THEN game_log[column] ELSE NoneVal]
    IN  <<[column |-> "file_name", log_keys |-> {}, goal_keys |-> {},
           value |-> StrVal(yaml_file.stem)],
          from_log("date"), from_log("division"), from_log("round"),
          from_log("home_team"), from_log("away_team"),
          [column |-> "scoring_team",
           log_keys |-> IF "scoring_team" \notin DOMAIN goal THEN {}
                        ELSE IF goal.scoring_team = "H" THEN {"home_team"}
                        ELSE {"away_team"},
           goal_keys |-> {"scoring_team"},
           value |-> IF {"scoring_team"} \subseteq DOMAIN goal
                        /\ {"home_team", "away_team"} \subseteq DOMAIN game_log
                     THEN scoring_team_name(game_log, goal) ELSE NoneVal],
          [column |-> "scoring_player", log_keys |-> {}, goal_keys |-> {"scoring_player"},
           value |-> IF "scoring_player" \in DOMAIN goal THEN goal.scoring_player
                     ELSE NoneVal],
          [column |-> "assist_player", log_keys |-> {}, goal_keys |-> {},
           value |-> IF "assist_player" \in DOMAIN goal THEN goal.assist_player
                     ELSE NoneVal],
          [column |-> "timestamp", log_keys |-> {}, goal_keys |-> {"timestamp"},
           value |-> IF "timestamp" \in DOMAIN goal
                     THEN StrVal(parse_timestamp(goal.timestamp)) ELSE NoneVal]>>

\* the appends from the k-th on, up to the first one that reads a missing key
RECURSIVE AppendRow(_, _, _, _, _)
AppendRow(d, appends, k, game_log, goal) ==
    IF k > Len(appends) THEN [exc |-> "", logs |-> d]
    ELSE IF ~(appends[k].log_keys \subseteq DOMAIN game_log
              /\ appends[k].goal_keys \subseteq DOMAIN goal)
    THEN [exc |-> "KeyError", logs |-> d]
    ELSE AppendRow(AppendTo(d, appends[k].column, appends[k].value),
                   appends, k + 1, game_log, goal)

\* "for goal in game_log["goals"]", from the k-th goal on
RECURSIVE AppendGoals(_, _, _)
AppendGoals(d, yaml_file, k) ==
    IF k > Len(yaml_file.game_log.goals.items) THEN [exc |-> "", logs |-> d]
    ELSE LET row == AppendRow(d, RowAppends(yaml_file, yaml_file.game_log.goals.items[k]), 1,
                              yaml_file.game_log, yaml_file.game_log.goals.items[k])
         IN  IF row.exc # "" THEN row
             ELSE AppendGoals(row.logs, yaml_file, k + 1)

\* one pass of the loop "for yaml_file in yaml_files"
FileOutcome(d, yaml_file) ==
    IF yaml_file.suffix # YamlSuffix THEN [exc |-> "", logs |-> d]
    ELSE IF ~yaml_file.loads THEN [exc |-> "YAMLError", logs |-> d]
    ELSE IF "goals" \notin DOMAIN yaml_file.game_log THEN [exc |-> "", logs |-> d]
    ELSE IF yaml_file.game_log.goals.isNone THEN [exc |-> "TypeError", logs |-> d]
    ELSE AppendGoals(d, yaml_file, 1)

\* pd.DataFrame(logs_dict) takes columns of one length only
SameLengths(d) == \A c1, c2 \in DOMAIN d : Len(d[c1]) = Len(d[c2])

-----------------------------------------------------------------------------
(* Inputs                                                                  *)

MaxGoals == 3          \* longest goal list of the goal-sequence inputs
MinDivisionLen == 60   \* shortest and longest division of the title inputs
MaxDivisionLen == 72
MinTitleLimit == 97    \* least and greatest max_title_length of the title inputs
MaxTitleLimit == 104
MaxHours == 1          \* integer timestamps go up to MaxDays days, MaxHours hours
MaxDays == 1
MaxSegments == 4       \* most segments of a title passed to abbreviate_title
MaxAbbrevLimit == 22   \* greatest max_title_length passed to abbreviate_title

HomeTeam == <<"S", "u", "r", "f", " ", "1", "3", "B">>
AwayTeam == <<"P", "A", " ", "S", "C">>
HomeAbbrev == <<"B", "A", "S">>
RoundName == <<"C", "u", "p">>
GameDate == [y |-> 2023, m |-> 11, d |-> 4]

\* a division name of n characters
DivisionOfLen(n) == [k \in 1..n |-> IF k = 1 THEN "U" ELSE "x"]

MakeGame(division, round, habbrev, aabbrev) ==
    [date |-> GameDate, division |-> division,
     home_team |-> HomeTeam, away_team |-> AwayTeam, round |-> round,
     home_team_abbrev |-> habbrev, away_team_abbrev |-> aabbrev]

MakeGoal(ts, team, scorer, assist, minute) ==
    [timestamp |-> ts, scoring_team |-> team, scoring_player |-> scorer,
     assist_player |-> assist, minute |-> minute]

GoalList(items) == [isNone |-> FALSE, items |-> items]
NoGoals == [isNone |-> TRUE, items |-> <<>>]

PlayerName == <<"E", "l", "i">>

\* goal lists of any length up to n over the goal set S
SeqsUpTo(S, n) == UNION {[1..k -> S] : k \in 0..n}

\* goal-sequence inputs: every order of home, away and out-of-domain scoring teams
SequenceGames ==
    {MakeGame(DivisionOfLen(3), NoneVal, NoneVal, NoneVal),
     MakeGame(DivisionOfLen(3), StrVal(RoundName), StrVal(HomeAbbrev), StrVal(<<>>))}
SequenceGoals ==
    {MakeGoal(IntVal(207), team, StrVal(PlayerName), NoneVal, NoneVal) :
         team \in {"H", "A", "X"}}
    \cup {MakeGoal(StrVal(<<"4", ":", "4", "7">>), team, IntVal(27), IntVal(70), IntVal(5)) :
         team \in {"H", "A", "h"}}

\* single-goal inputs: every combination of the fields of one goal line
AssistTexts ==
    {<<"P", "K">>, <<"F", "K">>, <<"O", "G">>, <<"C", "K">>,
     <<"p", "k">>, <<"F", "k">>, <<"o", "g">>, <<"c", "K">>,
     <<"P", "e", "n", "a", "l", "t", "y">>,
     <<"P", "e", "n", "a", "l", "t", "y", " ", "K", "i", "c", "k">>,
     <<"F", "r", "e", "e", " ", "K", "i", "c", "k">>,
     <<"f", "r", "e", "e", " ", "k", "i", "c", "k">>,
     <<"O", "w", "n", " ", "G", "o", "a", "l">>,
     <<"A", "l">>}
AssistValues == {NoneVal, IntVal(70)} \cup {StrVal(a) : a \in AssistTexts}
DetailGoals ==
    {MakeGoal(ts, team, scorer, assist, minute) :
         ts \in {IntVal(45), StrVal(<<"0", "0", ":", "4", "5">>)},
         team \in {"H", "A"},
         scorer \in {NoneVal, IntVal(9), StrVal(PlayerName)},
         assist \in AssistValues,
         minute \in {NoneVal, IntVal(13), StrVal(<<"6", "0", "+", "2">>)}}

\* title inputs: titles around the default limit and the limit passed
TitleGames ==
    {MakeGame(DivisionOfLen(n), round, NoneVal, NoneVal) :
         n \in MinDivisionLen..MaxDivisionLen, round \in {NoneVal, StrVal(RoundName)}}
TitleGoalLists ==
    {NoGoals, GoalList(<<>>),
     GoalList(<<MakeGoal(IntVal(207), "H", StrVal(PlayerName), NoneVal, NoneVal)>>)}

\* display-name inputs: each side with a marker in its name or not, and with an
\* abbreviation absent, empty or given
MarkedAwayTeam == <<"C", "V", " ", "2", "0", "1", "3", " ", "G">>
AwayAbbrev == <<"C", "V", "F", "A">>
TeamPairs == {<<HomeTeam, AwayTeam>>, <<HomeTeam, MarkedAwayTeam>>, <<AwayTeam, MarkedAwayTeam>>}
DisplayNameGames ==
    {[MakeGame(DivisionOfLen(3), NoneVal, habbrev, aabbrev)
         EXCEPT !.home_team = pair[1], !.away_team = pair[2]] :
         pair \in TeamPairs,
         habbrev \in {NoneVal, StrVal(<<>>), StrVal(HomeAbbrev)},
         aabbrev \in {NoneVal, StrVal(<<>>), StrVal(AwayAbbrev)}}
DisplayNameGoalLists ==
    {GoalList(<<MakeGoal(IntVal(207), "H", StrVal(PlayerName), NoneVal, NoneVal)>>),
     GoalList(<<MakeGoal(IntVal(207), "A", StrVal(PlayerName), NoneVal, NoneVal),
                MakeGoal(IntVal(603), "H", IntVal(27), IntVal(70), NoneVal)>>)}

DescribeInputs ==
    {[game |-> g, goals |-> GoalList(gs), limit |-> DefaultMaxTitleLength] :
         g \in SequenceGames, gs \in SeqsUpTo(SequenceGoals, MaxGoals)}
    \cup {[game |-> MakeGame(DivisionOfLen(3), NoneVal, NoneVal, NoneVal),
           goals |-> GoalList(<<goal>>), limit |-> DefaultMaxTitleLength] :
         goal \in DetailGoals}
    \cup {[game |-> g, goals |-> gl, limit |-> limit] :
         g \in TitleGames, gl \in TitleGoalLists,
         limit \in MinTitleLimit..MaxTitleLimit}
    \cup {[game |-> g, goals |-> gl, limit |-> DefaultMaxTitleLength] :
         g \in DisplayNameGames, gl \in DisplayNameGoalLists}

TimestampInputs ==
    {IntVal(d * 86400 + h * 3600 + m * 60 + sec) :
         d \in 0..MaxDays, h \in 0..MaxHours, m \in 0..59, sec \in 0..59}
    \cup {StrVal(<<"0", "0", ":", "4", "5">>), StrVal(<<"3", ":", "2", "7">>), StrVal(<<>>)}

\* team names passed to split_team_name: every text over a letter, a marker
\* letter, a blank and a digit, and the names of test_split_team_name
MaxNameLen == 6
NameChars == {"a", "B", " ", "1"}
TestTeamNames ==
    {<<"B", "a", "y", " ", "A", "r", "e", "a", " ", "S", "u", "r", "f", " ", "1", "3", "B", " ",
       "P", "r", "e", "-", "M", "L", "S">>,
     <<"B", "a", "y", " ", "A", "r", "e", "a", " ", "S", "u", "r", "f", " ", "2", "0", "1", "3", " ",
       "B", "l", "a", "c", "k">>,
     <<"B", "a", "y", " ", "A", "r", "e", "a", " ", "S", "u", "r", "f">>}
TeamNameInputs == SeqsUpTo(NameChars, MaxNameLen) \cup TestTeamNames

\* texts passed to parse_all_fields: a title line, a scoreline line and up to
\* MaxBodyLines further lines
MaxBodyLines == 3
TitleLines == {<<"2", "0", "2", "3", "-", "1", "1", "-", "0", "4", " ", "U", "1", "2">>, <<"N", "o", "v", " ", "4", " ", "U", "1", "2">>}
ColonScoreline == <<"S", "u", "r", "f", " ", "1", "3", "B", " ", "3", " ", ":", " ", "2", " ", "P", "A", " ", "S", "C">>
ScorelineLines ==
    {ColonScoreline,
     <<"S", "u", "r", "f", " ", "1", "3", "B", " ", "3", ":", "2", " ", "P", "A", " ", "S", "C">>,
     <<"S", "u", "r", "f", " ", "1", "3", "B", " ", "1", "0", " ", ":", " ", "1", "2", " ", "P", "A", " ", "S", "C">>,
     <<"S", "u", "r", "f", " ", "1", "3", "B", " ", "3", "-", "2", " ", "P", "A", " ", "S", "C">>,
     <<"S", "u", "r", "f", " ", "1", "3", "B", " ", "v", "s", " ", "P", "A", " ", "S", "C">>}
BodyLines ==
    {<<"0", ":", "1", "0", " ", "S", "u", "r", "f", " ", "-", " ", "E", "l", "i", " ", ":", " ", "1", "-", "0">>,
     <<"1", "2", ":", "0", "5", " ", "P", "A", " ", "-", " ", "#", "7", " ", "(", "a", "s", "s", "i", "s", "t", " ", "f", "r", "o", "m", " ", "#", "9", ")", ":", " ", "1", "-", "1">>,
     <<" ", " ", "7", ":", "4", "5", " ", "S", "u", "r", "f", " ", "1", "3", "B", " ", "-", " ", "B", "o", " ">>,
     <<"3", ":", "2", "7", " ", "Z", "z", "z", " ", "-", " ", "E", "l", "i", ":", " ", "2", "-", "1">>,
     <<"4", ":", "0", "5">>,
     <<"1", "2", "3", ":", "4", "5", " ", "e", "x", "t", "r", "a">>,
     <<"T", "h", "a", "n", "k", "s", " ", "f", "o", "r", " ", "w", "a", "t", "c", "h", "i", "n", "g">>,
     <<>>}
TextOf(lines) == Join(lines, <<"\n">>)
ParserInputs ==
    {TextOf(<<<<"2", "0", "2", "3", "-", "1", "1", "-", "0", "4", " ", "U", "1", "2">>, ColonScoreline>> \o body) : body \in SeqsUpTo(BodyLines, MaxBodyLines)}
    \cup {TextOf(<<t, sl>> \o body) :
             t \in TitleLines, sl \in ScorelineLines,
             body \in {<<>>, <<<<"0", ":", "1", "0", " ", "S", "u", "r", "f", " ", "-", " ", "E", "l", "i", " ", ":", " ", "1", "-", "0">>>>}}
    \cup {TextOf(lines) : lines \in SeqsUpTo(TitleLines, 1)}

\* files passed to parse_log_files_to_dataframe, up to MaxFiles of them
MaxFiles == 3
LogOf(home, away, round) ==
    [date |-> GameDate, division |-> StrVal(DivisionOfLen(3)), round |-> round,
     home_team |-> StrVal(home), away_team |-> StrVal(away),
     home_team_abbrev |-> NoneVal, away_team_abbrev |-> NoneVal]
WithGoals(game_log, gs) ==
    [key \in DOMAIN game_log \cup {"goals"} |->
        IF key = "goals" THEN gs ELSE game_log[key]]
Without(d, key) == [k \in DOMAIN d \ {key} |-> d[k]]
YamlFile(stem, suffix, loads, game_log) ==
    [stem |-> stem, suffix |-> suffix, loads |-> loads, game_log |-> game_log]
HomeGoal == MakeGoal(IntVal(207), "H", StrVal(PlayerName), IntVal(70), NoneVal)
AwayGoal == Without(MakeGoal(StrVal(<<"4", ":", "4", "7">>), "A", IntVal(27), NoneVal, NoneVal),
                    "assist_player")
YamlFiles ==
    {YamlFile(<<"g", "1">>, YamlSuffix, TRUE,
              WithGoals(LogOf(HomeTeam, AwayTeam, NoneVal), GoalList(<<HomeGoal, AwayGoal>>))),
     YamlFile(<<"g", "2">>, YamlSuffix, TRUE,
              WithGoals(LogOf(MarkedAwayTeam, AwayTeam, StrVal(RoundName)), GoalList(<<AwayGoal>>))),
     YamlFile(<<"g", "3">>, YamlSuffix, TRUE, LogOf(HomeTeam, AwayTeam, NoneVal)),
     YamlFile(<<"g", "4">>, YamlSuffix, TRUE,
              WithGoals(LogOf(HomeTeam, AwayTeam, NoneVal), GoalList(<<>>))),
     YamlFile(<<"g", "5">>, <<".", "t", "x", "t">>, TRUE,
              WithGoals(LogOf(HomeTeam, AwayTeam, NoneVal), GoalList(<<HomeGoal>>))),
     YamlFile(<<"g", "6">>, YamlSuffix, TRUE,
              WithGoals(Without(LogOf(HomeTeam, AwayTeam, NoneVal), "round"),
                        GoalList(<<HomeGoal>>))),
     YamlFile(<<"g", "7">>, YamlSuffix, TRUE, WithGoals(LogOf(HomeTeam, AwayTeam, NoneVal), NoGoals)),
     YamlFile(<<"g", "8">>, YamlSuffix, FALSE, LogOf(HomeTeam, AwayTeam, NoneVal))}
TableInputs == SeqsUpTo(YamlFiles, MaxFiles)

\* titles passed to abbreviate_title: segments joined by " | "
TitleSegments == {<<"a", "b">>, <<"c", " ", "d">>, <<"e">>}
SegmentLists == UNION {[1..k -> TitleSegments] : k \in 1..MaxSegments}

\* the title of test_abbreviate_title, "This | is | a | test | title"
TestTitleSegments ==
    <<<<"T", "h", "i", "s">>, <<"i", "s">>, <<"a">>, <<"t", "e", "s", "t">>,
      <<"t", "i", "t", "l", "e">>>>

JoinSegments(segs) == Join(segs, <<" ", "|", " ">>)

AbbreviateInputs ==
    {[title |-> JoinSegments(segs), limit |-> limit] :
         segs \in SegmentLists, limit \in 0..MaxAbbrevLimit}
    \cup {[title |-> JoinSegments(TestTitleSegments), limit |-> limit] :
         limit \in {20, 24, 30}}

-----------------------------------------------------------------------------
(* The calls                                                               *)

InitDescribe ==
    \E in \in DescribeInputs :
        /\ op = "soccer_game_description"
        /\ pc = "goals"
        /\ game = in.game
        /\ goals = in.goals
        /\ max_title_length = in.limit
        /\ arg = NoneVal
        /\ i = 1
        /\ team_score = [H |-> 0, A |-> 0]
        /\ descriptions = <<>>
        /\ segments = <<>>
        /\ title = <<>>

InitParseTimestamp ==
    \E ts \in TimestampInputs :
        /\ op = "parse_timestamp"
        /\ pc = "call"
        /\ arg = ts
        /\ game = NoneVal
        /\ goals = NoGoals
        /\ max_title_length = 0
        /\ i = 0
        /\ team_score = [H |-> 0, A |-> 0]
        /\ descriptions = <<>>
        /\ segments = <<>>
        /\ title = <<>>

InitAbbreviateTitle ==
    \E in \in AbbreviateInputs :
        /\ op = "abbreviate_title"
        /\ pc = "split"
        /\ arg = StrVal(in.title)
        /\ max_title_length = in.limit
        /\ game = NoneVal
        /\ goals = NoGoals
        /\ i = 0
        /\ team_score = [H |-> 0, A |-> 0]
        /\ descriptions = <<>>
        /\ segments = <<>>
        /\ title = in.title

InitSplitTeamName ==
    \E name \in TeamNameInputs :
        /\ op = "split_team_name"
        /\ pc = "call"
        /\ arg = StrVal(name)
        /\ game = NoneVal
        /\ goals = NoGoals
        /\ max_title_length = 0
        /\ i = 0
        /\ team_score = [H |-> 0, A |-> 0]
        /\ descriptions = <<>>
        /\ segments = <<>>
        /\ title = <<>>

InitParseAllFields ==
    \E text \in ParserInputs :
        /\ op = "parse_all_fields"
        /\ pc = "head"
        /\ arg = StrVal(text)
        /\ game = NoneVal
        /\ goals = NoGoals
        /\ max_title_length = 0
        /\ i = 0
        /\ team_score = [H |-> 0, A |-> 0]
        /\ descriptions = <<>>
        /\ segments = <<>>
        /\ title = <<>>

InitParseLogFiles ==
    \E files \in TableInputs :
        /\ op = "parse_log_files_to_dataframe"
        /\ pc = "files"
        /\ yaml_files = files
        /\ arg = NoneVal
        /\ game = NoneVal
        /\ goals = NoGoals
        /\ max_title_length = 0
        /\ i = 1
        /\ team_score = [H |-> 0, A |-> 0]
        /\ descriptions = <<>>
        /\ segments = <<>>
        /\ title = <<>>

Init ==
    /\ \/ /\ InitDescribe \/ InitParseTimestamp \/ InitAbbreviateTitle
             \/ InitSplitTeamName \/ InitParseAllFields
          /\ yaml_files = <<>>
       \/ InitParseLogFiles
    /\ log = <<>>
    /\ exc = ""
    /\ result = NoResult
    /\ strings = <<>>
    /\ exc_msg = <<>>
    /\ logs_dict = <<>>
    /\ calls = <<>>
    /\ scoring_abbrev_dict = [key \in scoring_abbrev_keys |-> scoring_abbrev(key)]

\* one pass of the loop "for goal in goals"
GoalStep ==
    /\ op = "soccer_game_description" /\ pc = "goals"
    /\ ~goals.isNone /\ i <= Len(goals.items)
    /\ LET goal == goals.items[i]
       IN  IF ScoringTeamRaises(goal)
           THEN /\ pc' = "raised" /\ exc' = "KeyError"
                /\ UNCHANGED <<i, team_score, descriptions>>
           ELSE LET score == IncrementScore(team_score, goal.scoring_team)
                IN  /\ team_score' = score
                    /\ IF AssistRaises(goal)
                       THEN /\ pc' = "raised" /\ exc' = "KeyError"
                            /\ UNCHANGED <<i, descriptions>>
                       ELSE /\ descriptions' =
                                   Append(descriptions, GoalDescription(game, goal, score))
                            /\ i' = i + 1
                            /\ UNCHANGED <<pc, exc>>
    /\ UNCHANGED <<op, arg, game, goals, max_title_length, segments, title, log, result>>
    /\ UNCHANGED <<parserVars, tableVars, concurrentVars>>

\* after the loop: final_scoreline, title, the length check and its log records
ComposeTitle ==
    /\ op = "soccer_game_description" /\ pc = "goals"
    /\ goals.isNone \/ i > Len(goals.items)
    /\ LET t == JoinedTitle(game, team_score)
       IN  /\ title' = FinalTitle(t, max_title_length)
           /\ log' = log \o TitleLog(t, max_title_length)
    /\ pc' = "return"
    /\ UNCHANGED <<op, arg, game, goals, max_title_length, i, team_score,
                   descriptions, segments, exc, result>>
    /\ UNCHANGED <<parserVars, tableVars, concurrentVars>>

\* subtitle and the returned text
ReturnDescription ==
    /\ op = "soccer_game_description" /\ pc = "return"
    /\ result' = StrVal(Description(title, game, team_score, descriptions))
    /\ pc' = "done"
    /\ UNCHANGED <<op, arg, game, goals, max_title_length, i, team_score,
                   descriptions, segments, title, log, exc>>
    /\ UNCHANGED <<parserVars, tableVars, concurrentVars>>

ParseTimestampCall ==
    /\ op = "parse_timestamp" /\ pc = "call"
    /\ result' = StrVal(parse_timestamp(arg))
    /\ pc' = "done"
    /\ UNCHANGED <<op, arg, game, goals, max_title_length, i, team_score,
                   descriptions, segments, title, log, exc>>
    /\ UNCHANGED <<parserVars, tableVars, concurrentVars>>

SplitTeamNameCall ==
    /\ op = "split_team_name" /\ pc = "call"
    /\ result' = StrVal(split_team_name(arg.s))
    /\ pc' = "done"
    /\ UNCHANGED <<op, arg, game, goals, max_title_length, i, team_score,
                   descriptions, segments, title, log, exc>>
    /\ UNCHANGED <<parserVars, tableVars, concurrentVars>>

\* segments = title.split("|"), and the loop index at len(segments) - 1
AbbrevSplit ==
    /\ op = "abbreviate_title" /\ pc = "split"
    /\ segments' = Split(title, "|")
    /\ i' = Len(segments')
    /\ pc' = "loop"
    /\ UNCHANGED <<op, arg, game, goals, max_title_length, team_score,
                   descriptions, title, log, exc, result>>
    /\ UNCHANGED <<parserVars, tableVars, concurrentVars>>

\* one pass of the loop body
AbbrevIterate ==
    /\ op = "abbreviate_title" /\ pc = "loop"
    /\ i >= 2 /\ ~AbbrevFits(title, max_title_length)
    /\ LET st == AbbrevBody([segments |-> segments, title |-> title], i)
       IN  /\ segments' = st.segments
           /\ title' = st.title
    /\ i' = i - 1
    /\ UNCHANGED <<op, pc, arg, game, goals, max_title_length, team_score,
                   descriptions, log, exc, result>>
    /\ UNCHANGED <<parserVars, tableVars, concurrentVars>>

\* the loop ends (break, or range exhausted) and the title is returned
AbbrevReturn ==
    /\ op = "abbreviate_title" /\ pc = "loop"
    /\ i < 2 \/ AbbrevFits(title, max_title_length)
    /\ result' = StrVal(title)
    /\ pc' = "done"
    /\ UNCHANGED <<op, arg, game, goals, max_title_length, i, team_score,
                   descriptions, segments, title, log, exc>>
    /\ UNCHANGED <<parserVars, tableVars, concurrentVars>>

\* parse_all_fields up to the goal loop: the lines, the title line, the
\* scoreline line and the Game
HeadFromTeams(t, teams) ==
    IF teams.exc # "" THEN teams
    ELSE Return(Game(t.date, t.division, teams.val.home_team, teams.val.away_team))
HeadFromTitle(strs, t) ==
    IF t.exc # "" THEN t
    ELSE IF Len(strs) < 2 THEN Raise("IndexError", IndexMessage)
    ELSE HeadFromTeams(t.val, parse_team(strs[2]))
parse_head(strs) ==
    IF Len(strs) < 1 THEN Raise("IndexError", IndexMessage)
    ELSE HeadFromTitle(strs, parse_title(strs[1]))

ParseHead ==
    /\ op = "parse_all_fields" /\ pc = "head"
    /\ strings' = split_multiline_string(arg.s)
    /\ LET head == parse_head(strings')
       IN  IF head.exc # ""
           THEN /\ pc' = "raised" /\ exc' = head.exc /\ exc_msg' = head.msg
                /\ UNCHANGED <<game, goals, i>>
           ELSE /\ game' = head.val
                /\ goals' = GoalList(<<>>)
                /\ i' = 3
                /\ pc' = "lines"
                /\ UNCHANGED <<exc, exc_msg>>
    /\ UNCHANGED <<op, arg, max_title_length, team_score, descriptions, segments,
                   title, log, result, tableVars, concurrentVars>>

\* one pass of the loop "for string in strings[2:]"
ParseLine ==
    /\ op = "parse_all_fields" /\ pc = "lines"
    /\ i <= Len(strings)
    /\ IF StartsWithTimestamp(strings[i])
       THEN LET goal == parse_goal(strings[i], game.home_team, game.away_team)
            IN  IF goal.exc # ""
                THEN /\ pc' = "raised" /\ exc' = goal.exc /\ exc_msg' = goal.msg
                     /\ UNCHANGED <<goals, i>>
                ELSE /\ goals' = GoalList(Append(goals.items, goal.val))
                     /\ i' = i + 1
                     /\ UNCHANGED <<pc, exc, exc_msg>>
       ELSE /\ i' = i + 1
            /\ UNCHANGED <<pc, goals, exc, exc_msg>>
    /\ UNCHANGED <<op, arg, game, max_title_length, team_score, descriptions, segments,
                   title, log, result, strings, tableVars, concurrentVars>>

\* return game, goals
ParseReturn ==
    /\ op = "parse_all_fields" /\ pc = "lines"
    /\ i > Len(strings)
    /\ result' = [t |-> "tuple", n |-> 0, s |-> <<>>, game |-> game, goals |-> goals.items]
    /\ pc' = "done"
    /\ UNCHANGED <<op, arg, game, goals, max_title_length, i, team_score, descriptions,
                   segments, title, log, exc, parserVars, tableVars, concurrentVars>>

\* one pass of the loop "for yaml_file in yaml_files"
LogFileStep ==
    /\ op = "parse_log_files_to_dataframe" /\ pc = "files"
    /\ i <= Len(yaml_files)
    /\ LET out == FileOutcome(logs_dict, yaml_files[i])
       IN  /\ logs_dict' = out.logs
           /\ exc' = out.exc
           /\ log' = IF out.exc = "YAMLError" THEN Append(log, "error") ELSE log
           /\ IF out.exc # ""
              THEN pc' = "raised" /\ UNCHANGED i
              ELSE i' = i + 1 /\ UNCHANGED pc
    /\ UNCHANGED <<op, arg, game, goals, max_title_length, team_score, descriptions,
                   segments, title, result, yaml_files, parserVars, concurrentVars>>

\* return pd.DataFrame(logs_dict)
LogReturn ==
    /\ op = "parse_log_files_to_dataframe" /\ pc = "files"
    /\ i > Len(yaml_files)
    /\ IF SameLengths(logs_dict)
       THEN /\ result' = [t |-> "DataFrame", n |-> 0, s |-> <<>>, columns |-> logs_dict]
            /\ pc' = "done"
            /\ UNCHANGED exc
       ELSE /\ pc' = "raised" /\ exc' = "ValueError"
            /\ UNCHANGED result
    /\ UNCHANGED <<op, arg, game, goals, max_title_length, i, team_score, descriptions,
                   segments, title, log, parserVars, tableVars, concurrentVars>>

Next ==
    \/ GoalStep
    \/ ComposeTitle
    \/ ReturnDescription
    \/ ParseTimestampCall
    \/ SplitTeamNameCall
    \/ AbbrevSplit
    \/ AbbrevIterate
    \/ AbbrevReturn
    \/ ParseHead
    \/ ParseLine
    \/ ParseReturn
    \/ LogFileStep
    \/ LogReturn

Spec == Init /\ [][Next]_vars

-----------------------------------------------------------------------------
(* Concurrent calls of soccer_game_description                             *)
(* Each call has its own arguments and locals (a frame); the table         *)
(* scoring_abbrev and the module logger are shared by all calls.           *)

NumCalls == 2
CallIds == 1..NumCalls

\* the frame of a call as it begins
NewCall(in) ==
    [pc |-> "goals", game |-> in.game, goals |-> in.goals,
     max_title_length |-> in.limit, i |-> 1, team_score |-> [H |-> 0, A |-> 0],
     descriptions |-> <<>>, title |-> <<>>, exc |-> "", result |-> NoResult]

\* faulty variant: team_score is one module-level dict, seen here as the
\* dict of the first call
ScoreBefore_Shared(frames, c) == frames[1].team_score

\* the team_score that call c reads: the local of its own frame
ScoreBefore(frames, c) == frames[c].team_score

\* one pass of the loop "for goal in goals" on a frame, from the score read
FrameGoalStep(f, before) ==
    LET goal == f.goals.items[f.i]
        score == IncrementScore(before, goal.scoring_team)
    IN  IF ScoringTeamRaises(goal)
        THEN [f EXCEPT !.pc = "raised", !.exc = "KeyError"]
        ELSE IF AssistRaises(goal)
        THEN [f EXCEPT !.team_score = score, !.pc = "raised", !.exc = "KeyError"]
        ELSE [f EXCEPT !.team_score = score,
                       !.descriptions = Append(@, GoalDescription(f.game, goal, score)),
                       !.i = @ + 1]

LoopDone(f) == f.goals.isNone \/ f.i > Len(f.goals.items)

\* after the loop: final_scoreline, title and the length check
FrameComposeTitle(f) ==
    [f EXCEPT !.title = FinalTitle(JoinedTitle(f.game, f.team_score), f.max_title_length),
              !.pc = "return"]

\* subtitle and the returned text
FrameReturn(f) ==
    [f EXCEPT !.result = StrVal(Description(f.title, f.game, f.team_score, f.descriptions)),
              !.pc = "done"]

ConcurrentGoalLists ==
    {NoGoals,
     GoalList(<<MakeGoal(IntVal(207), "H", StrVal(PlayerName), NoneVal, NoneVal)>>),
     GoalList(<<MakeGoal(IntVal(207), "A", StrVal(PlayerName), StrVal(<<"P", "K">>), NoneVal),
                MakeGoal(IntVal(603), "H", IntVal(27), IntVal(70), NoneVal)>>),
     GoalList(<<MakeGoal(IntVal(45), "H", IntVal(27), NoneVal, NoneVal),
                MakeGoal(IntVal(207), "X", StrVal(PlayerName), NoneVal, NoneVal)>>)}
ConcurrentInputs ==
    {[game |-> MakeGame(DivisionOfLen(3), NoneVal, NoneVal, NoneVal),
      goals |-> gl, limit |-> DefaultMaxTitleLength] : gl \in ConcurrentGoalLists}
    \cup {[game |-> MakeGame(DivisionOfLen(DefaultMaxTitleLength), StrVal(RoundName),
                             StrVal(HomeAbbrev), NoneVal),
           goals |-> GoalList(<<MakeGoal(IntVal(207), "A", StrVal(PlayerName), NoneVal, NoneVal)>>),
           limit |-> DefaultMaxTitleLength]}

InitConcurrent ==
    /\ calls \in [CallIds -> {NewCall(in) : in \in ConcurrentInputs}]
    /\ scoring_abbrev_dict = [key \in scoring_abbrev_keys |-> scoring_abbrev(key)]
    /\ op = "concurrent"
    /\ pc = "calls"
    /\ arg = NoneVal
    /\ game = NoneVal
    /\ goals = NoGoals
    /\ max_title_length = 0
    /\ i = 0
    /\ team_score = [H |-> 0, A |-> 0]
    /\ descriptions = <<>>
    /\ segments = <<>>
    /\ title = <<>>
    /\ log = <<>>
    /\ exc = ""
    /\ result = NoResult
    /\ strings = <<>>
    /\ exc_msg = <<>>
    /\ yaml_files = <<>>
    /\ logs_dict = <<>>

sequentialVars ==
    <<op, pc, arg, game, goals, max_title_length, i, team_score, descriptions,
      segments, title, exc, result, parserVars, tableVars>>

CallGoalStep(c) ==
    /\ calls[c].pc = "goals" /\ ~LoopDone(calls[c])
    /\ calls' = [calls EXCEPT ![c] = FrameGoalStep(calls[c], ScoreBefore(calls, c))]
    /\ UNCHANGED <<log, scoring_abbrev_dict, sequentialVars>>

CallComposeTitle(c) ==
    /\ calls[c].pc = "goals" /\ LoopDone(calls[c])
    /\ calls' = [calls EXCEPT ![c] = FrameComposeTitle(calls[c])]
    /\ log' = log \o TitleLog(JoinedTitle(calls[c].game, calls[c].team_score),
                              calls[c].max_title_length)
    /\ UNCHANGED <<scoring_abbrev_dict, sequentialVars>>

CallReturn(c) ==
    /\ calls[c].pc = "return"
    /\ calls' = [calls EXCEPT ![c] = FrameReturn(calls[c])]
    /\ UNCHANGED <<log, scoring_abbrev_dict, sequentialVars>>

NextConcurrent ==
    \/ \E c \in CallIds : CallGoalStep(c)
    \/ \E c \in CallIds : CallComposeTitle(c)
    \/ \E c \in CallIds : CallReturn(c)

SpecConcurrent == InitConcurrent /\ [][NextConcurrent]_vars

-----------------------------------------------------------------------------
(* Reading a returned description                                          *)

Described == op = "soccer_game_description" /\ pc = "done"

\* frag occurs in line
Contains(line, frag) ==
    \E p \in 1..(Len(line) - Len(frag) + 1) :
        SubSeq(line, p, p + Len(frag) - 1) = frag

\* the text of line after the first occurrence of frag
After(line, frag) ==
    LET p == CHOOSE q \in 1..(Len(line) - Len(frag) + 1) :
                 /\ SubSeq(line, q, q + Len(frag) - 1) = frag
                 /\ \A r \in 1..(q - 1) : SubSeq(line, r, r + Len(frag) - 1) # frag
    IN  SubSeq(line, p + Len(frag), Len(line))

\* the lines of the returned text: title, blank, subtitle, blank, final
\* scoreline, blank, then the goal lines
ResultLines == Split(result.s, "\n")
TitleLine == ResultLines[1]
SubtitleLine == ResultLines[3]
ScorelineLine == ResultLines[5]
GoalLines == SubSeq(ResultLines, 7, Len(ResultLines))

Items == goals.items

\* number of goals by team among the first k goals
GoalsBy(team, k) == Cardinality({j \in 1..k : Items[j].scoring_team = team})

\* the running score after k goals with the side of the k-th goal bracketed
BracketedScore(k) ==
    IF Items[k].scoring_team = "H"
    THEN <<"[">> \o IntToStr(GoalsBy("H", k)) \o <<"]", "-">> \o IntToStr(GoalsBy("A", k))
    ELSE IntToStr(GoalsBy("H", k)) \o <<"-", "[">> \o IntToStr(GoalsBy("A", k)) \o <<"]">>

\* the scorer as a goal line shows it
ShownScorer(goal) ==
    CASE goal.scoring_player.t = "int" -> <<"#">> \o IntToStr(goal.scoring_player.n)
      [] goal.scoring_player.t = "none" -> <<"N", "o", "n", "e">>
      [] OTHER -> goal.scoring_player.s

AllHomeOrAway == \A k \in 1..Len(Items) : Items[k].scoring_team \in {"H", "A"}
NoTextAssist == \A k \in 1..Len(Items) : Items[k].assist_player.t # "str"

-----------------------------------------------------------------------------
(* C1: for every goal sequence over the scoring teams H and A the          *)
(* description has exactly one goal line per goal, in the given order, and *)
(* the k-th goal line shows the running score after the first k goals with *)
(* brackets around the side that scored the k-th goal (so consecutive goal *)
(* lines differ by +1 on exactly one side); such a sequence, with no text  *)
(* assist, always yields a description.                                    *)
C1_RunningScore ==
    /\ Described =>
           /\ Len(GoalLines) = Len(Items)
           /\ \A k \in 1..Len(Items) :
                  /\ Contains(GoalLines[k], <<" ">> \o BracketedScore(k) \o <<" ">>)
                  /\ Contains(GoalLines[k], <<" ", "-", " ">> \o ShownScorer(Items[k]))
    /\ (op = "soccer_game_description" /\ AllHomeOrAway /\ NoTextAssist) => pc # "raised"

C1_Witness ==
    /\ Described
    /\ Len(Items) = 3
    /\ Items[1].scoring_team = "H" /\ Items[2].scoring_team = "A"
    /\ Items[3].scoring_team = "A"
    /\ Contains(GoalLines[3], <<" ", "1", "-", "[", "2", "]", " ">>)

-----------------------------------------------------------------------------
(* C2: the final scoreline line, and the first segment of the title, is    *)
(* "<home_team> H-A <away_team>" with the full team names and the totals H *)
(* and A of home and away goals; H + A is the number of goals, and (H, A)  *)
(* is the running score of the last goal line (0-0 without goals).         *)
ExpectedFinalScoreline ==
    game.home_team \o <<" ">> \o IntToStr(GoalsBy("H", Len(Items))) \o <<"-">>
    \o IntToStr(GoalsBy("A", Len(Items))) \o <<" ">> \o game.away_team

C2_FinalScoreline ==
    Described =>
        /\ ScorelineLine = ExpectedFinalScoreline
        /\ RStrip(Split(TitleLine, "|")[1]) = ExpectedFinalScoreline
        /\ GoalsBy("H", Len(Items)) + GoalsBy("A", Len(Items)) = Len(Items)
        /\ Len(Items) > 0 =>
               Contains(GoalLines[Len(Items)],
                        <<" ">> \o BracketedScore(Len(Items)) \o <<" ">>)
        /\ Len(Items) = 0 =>
               Contains(ScorelineLine, <<" ", "0", "-", "0", " ">>)

C2_Witness ==
    /\ Described
    /\ Len(Items) = 3
    /\ GoalsBy("H", 3) = 2 /\ GoalsBy("A", 3) = 1
    /\ Contains(ScorelineLine, <<" ", "2", "-", "1", " ">>)

-----------------------------------------------------------------------------
(* C3: a goal whose scoring_team is not exactly "H" or "A", at any         *)
(* position, makes soccer_game_description raise at that goal: the call    *)
(* never gets past the goal, never returns a description (no partial       *)
(* text), and the step that reaches the goal raises.                       *)
HasBadTeam == op = "soccer_game_description" /\ ~AllHomeOrAway
FirstBadTeam ==
    CHOOSE k \in 1..Len(Items) :
        /\ Items[k].scoring_team \notin {"H", "A"}
        /\ \A j \in 1..(k - 1) : Items[j].scoring_team \in {"H", "A"}

C3_NeverPast ==
    HasBadTeam =>
        /\ i <= FirstBadTeam
        /\ pc \in {"goals", "raised"}
        /\ result = NoResult
        /\ pc = "raised" => exc = "KeyError"

C3_RaisesAtGoal ==
    (HasBadTeam /\ pc = "goals" /\ i = FirstBadTeam) => (pc' = "raised" /\ result' = NoResult)

C3_FailFast == []C3_NeverPast /\ [][C3_RaisesAtGoal]_vars

C3_Witness ==
    /\ HasBadTeam
    /\ pc = "raised"
    /\ Len(Items) = 3
    /\ FirstBadTeam = 2
    /\ Items[3].scoring_team = "H"

-----------------------------------------------------------------------------
(* C4: in a goal line an absent assist adds no annotation, an integer      *)
(* assist n renders "(assist from #n)", the codes PK, FK, OG render        *)
(* "(penalty kick)", "(free kick)", "(own goal)", a text outside the       *)
(* shorthand set renders "(assist from <name>)", an integer scorer n       *)
(* renders "#n" and an absent scorer renders "None" without raising.       *)

\* the shorthand set of the data model, in upper case
ShorthandCodes ==
    {<<"P", "K">>, <<"P", "E", "N", "A", "L", "T", "Y">>,
     <<"P", "E", "N", "A", "L", "T", "Y", " ", "K", "I", "C", "K">>,
     <<"F", "K">>, <<"F", "R", "E", "E", " ", "K", "I", "C", "K">>,
     <<"O", "G">>, <<"O", "W", "N", " ", "G", "O", "A", "L">>,
     <<"C", "K">>}
InShorthandSet(text) == Upper(text) \in ShorthandCodes

PenaltyKick == <<"p", "e", "n", "a", "l", "t", "y", " ", "k", "i", "c", "k">>
FreeKick == <<"f", "r", "e", "e", " ", "k", "i", "c", "k">>
OwnGoal == <<"o", "w", "n", " ", "g", "o", "a", "l">>
CornerKick == <<"c", "o", "r", "n", "e", "r", " ", "k", "i", "c", "k">>

\* the phrase an upper-case shorthand code stands for
ExpandedPhrase(code) ==
    CASE code \in {<<"P", "K">>, <<"P", "E", "N", "A", "L", "T", "Y">>,
                   <<"P", "E", "N", "A", "L", "T", "Y", " ", "K", "I", "C", "K">>}
             -> PenaltyKick
      [] code \in {<<"F", "K">>, <<"F", "R", "E", "E", " ", "K", "I", "C", "K">>}
             -> FreeKick
      [] code \in {<<"O", "G">>, <<"O", "W", "N", " ", "G", "O", "A", "L">>}
             -> OwnGoal
      [] OTHER -> CornerKick

\* the assist values the statement covers
C4_Covers(goal) ==
    LET a == goal.assist_player
    IN  \/ a.t \in {"none", "int"}
        \/ a.t = "str" /\ a.s \in {<<"P", "K">>, <<"F", "K">>, <<"O", "G">>}
        \/ a.t = "str" /\ ~InShorthandSet(a.s)

\* the annotation the statement gives for a covered assist value
C4_Annotation(goal) ==
    LET a == goal.assist_player
    IN  CASE a.t = "none" -> <<>>
          [] a.t = "int" ->
                 <<" ", "(", "a", "s", "s", "i", "s", "t", " ", "f", "r", "o", "m", " ", "#">>
                 \o IntToStr(a.n) \o <<")">>
          [] a.t = "str" /\ InShorthandSet(a.s) ->
                 <<" ", "(">> \o ExpandedPhrase(a.s) \o <<")">>
          [] OTHER ->
                 <<" ", "(", "a", "s", "s", "i", "s", "t", " ", "f", "r", "o", "m", " ">>
                 \o a.s \o <<")">>

\* the text of the k-th goal line after " - ": scorer, annotation, minute
GoalTail(k) == After(GoalLines[k], <<" ", "-", " ">>)

C4_Rendering ==
    /\ Described =>
           \A k \in 1..Len(Items) :
               C4_Covers(Items[k]) =>
                   LET shown == ShownScorer(Items[k]) \o C4_Annotation(Items[k])
                       tail == GoalTail(k)
                   IN  /\ Len(tail) >= Len(shown)
                       /\ SubSeq(tail, 1, Len(shown)) = shown
                       /\ ~Contains(SubSeq(tail, Len(shown) + 1, Len(tail)), <<"(">>)
    /\ (/\ op = "soccer_game_description"
        /\ AllHomeOrAway
        /\ \A k \in 1..Len(Items) : C4_Covers(Items[k])) => pc # "raised"

C4_Witness ==
    /\ Described
    /\ Len(Items) = 1
    /\ Items[1].scoring_player.t = "none"
    /\ Items[1].assist_player = StrVal(<<"O", "G">>)
    /\ Contains(GoalLines[1], <<" ", "-", " ", "N", "o", "n", "e", " ", "(">> \o OwnGoal \o <<")">>)

-----------------------------------------------------------------------------
(* C5: the shorthand match on assist_player is case-insensitive over the   *)
(* whole shorthand set: every code of the set, in any letter case, renders *)
(* the same expanded phrase as the upper-case code and does not raise.     *)
C5_CaseInsensitive ==
    op = "soccer_game_description" =>
        \A k \in 1..Len(Items) :
            (Items[k].assist_player.t = "str" /\ InShorthandSet(Items[k].assist_player.s)) =>
                /\ ~(pc = "raised" /\ i = k)
                /\ Described =>
                       Contains(GoalLines[k],
                                <<" ", "(">>
                                \o ExpandedPhrase(Upper(Items[k].assist_player.s))
                                \o <<")">>)

-----------------------------------------------------------------------------
(* C6: parse_timestamp returns a string argument unchanged and, for an     *)
(* integer number of seconds, minutes:seconds with the hours discarded and *)
(* exactly one leading zero stripped from the two-digit minutes field:     *)
(* 90 gives "1:30", 45 gives "0:45", the minutes field is never empty.     *)
MinutesSeconds(n) ==
    LET mm == (n \div 60) % 60
        ss == n % 60
    IN  IntToStr(mm) \o <<":">> \o (IF ss < 10 THEN <<"0">> ELSE <<>>) \o IntToStr(ss)

C6_OneZeroStripped ==
    (op = "parse_timestamp" /\ pc = "done") =>
        IF arg.t = "str" THEN result.s = arg.s
        ELSE result.s = MinutesSeconds(arg.n)

-----------------------------------------------------------------------------
(* Titles, as the statements about them describe them                      *)

\* segs joined by " | " with the k rightmost delimiters collapsed to "|"
CollapseRight(segs, k) ==
    LET n == Len(segs)
        Piece[j \in 1..n] ==
            IF j = 1 THEN segs[1]
            ELSE IF j > n - k THEN <<"|">> \o segs[j]
            ELSE <<" ", "|", " ">> \o segs[j]
        Cat[j \in 0..n] == IF j = 0 THEN <<>> ELSE Cat[j - 1] \o Piece[j]
    IN  Cat[n]

\* the least number of collapsed delimiters that brings segs within limit,
\* or all of them when none does
LeastCollapse(segs, limit) ==
    LET n == Len(segs)
        enough == {k \in 0..(n - 1) : Len(CollapseRight(segs, k)) <= limit}
    IN  IF enough = {} THEN n - 1
        ELSE CHOOSE k \in enough : \A m \in enough : k <= m

\* the title segments of the game: final scoreline, division, round, date
ExpectedDate == <<"2", "0", "2", "3", "-", "1", "1", "-", "0", "4">>
ExpectedSegments ==
    IF game.round.t = "none"
    THEN <<ExpectedFinalScoreline, game.division, ExpectedDate>>
    ELSE <<ExpectedFinalScoreline, game.division, game.round.s, ExpectedDate>>
ExpectedSubtitle ==
    ExpectedDate \o <<" ">> \o game.division
    \o (IF game.round.t = "none" THEN <<>> ELSE <<" ", "(">> \o game.round.s \o <<")">>)

FullTitle == CollapseRight(ExpectedSegments, 0)
FullyCollapsedTitle == CollapseRight(ExpectedSegments, Len(ExpectedSegments) - 1)

\* the title has been composed; the emitted title line is title without its newline
TitleComposed == op = "soccer_game_description" /\ pc \in {"return", "done"}
EmittedTitle == SubSeq(title, 1, Len(title) - 1)
Warned == \E k \in 1..Len(log) : log[k] = "warning"

-----------------------------------------------------------------------------
(* C7: for every max_title_length L, not only the default: a title of      *)
(* length <= L is emitted unchanged, and a longer title is abbreviated     *)
(* against L, so that whenever the fully collapsed title has length <= L   *)
(* the emitted title has length <= L and no more delimiters collapsed than *)
(* needed to reach L.                                                      *)
C7_AbbreviatedAgainstLimit ==
    TitleComposed =>
        /\ Len(FullTitle) <= max_title_length => EmittedTitle = FullTitle
        /\ (Len(FullTitle) > max_title_length
            /\ Len(FullyCollapsedTitle) <= max_title_length) =>
               /\ Len(EmittedTitle) <= max_title_length
               /\ EmittedTitle =
                      CollapseRight(ExpectedSegments,
                                    LeastCollapse(ExpectedSegments, max_title_length))

-----------------------------------------------------------------------------
(* C8: when the title is longer than max_title_length even with every      *)
(* delimiter collapsed, soccer_game_description does not raise and returns *)
(* a complete description: the title line is the full " | "-joined title,  *)
(* followed by the subtitle, the final scoreline and all goal lines.       *)
Overlong ==
    /\ op = "soccer_game_description"
    /\ AllHomeOrAway /\ NoTextAssist
    /\ Len(CollapseRight(ExpectedSegments, Len(ExpectedSegments) - 1)) > max_title_length

C8_OverlongTitleKept ==
    Overlong =>
        /\ pc # "raised"
        /\ TitleComposed => title = FullTitle \o <<"\n">>
        /\ Described =>
               /\ TitleLine = FullTitle
               /\ ResultLines[2] = <<>>
               /\ SubtitleLine = ExpectedSubtitle
               /\ ResultLines[4] = <<>>
               /\ ScorelineLine = ExpectedFinalScoreline
               /\ ResultLines[6] = <<>>
               /\ Len(GoalLines) = Len(Items)
               /\ \A k \in 1..Len(Items) :
                      Contains(GoalLines[k], <<" ">> \o BracketedScore(k) \o <<" ">>)

C8_Witness ==
    /\ Overlong /\ Described
    /\ game.round.t = "str"
    /\ Len(Items) = 1
    /\ Len(TitleLine) > max_title_length
    /\ max_title_length # DefaultMaxTitleLength

-----------------------------------------------------------------------------
(* C9, as stated: the title-length warning is emitted if the title cannot  *)
(* be made to fit within max_title_length even after abbreviation, and no  *)
(* warning is emitted when the title already fits or when abbreviation     *)
(* brings it within max_title_length.                                      *)
C9_WarnOnlyIfUnfit ==
    TitleComposed =>
        /\ Len(EmittedTitle) > max_title_length => Warned
        /\ Len(EmittedTitle) <= max_title_length => ~Warned

(* C9, amended: the title-length warning is emitted exactly when the       *)
(* " | "-joined title is longer than max_title_length before any           *)
(* abbreviation: also when abbreviation then brings the title within       *)
(* max_title_length (an info record follows the warning), and never when   *)
(* the title already fits.                                                 *)
C9_WarnIffTooLong ==
    TitleComposed =>
        /\ Warned <=> Len(FullTitle) > max_title_length
        /\ Len(EmittedTitle) > max_title_length => Warned
        /\ log \in {<<>>, <<"warning">>, <<"warning", "info">>}
        /\ log = <<"warning", "info">> =>
               (Len(EmittedTitle) <= max_title_length /\ EmittedTitle # FullTitle)
        /\ (Len(FullTitle) > max_title_length
            /\ Len(EmittedTitle) <= max_title_length) => log = <<"warning", "info">>

C9_Witness ==
    /\ TitleComposed
    /\ max_title_length = DefaultMaxTitleLength
    /\ Len(FullTitle) > max_title_length
    /\ Len(EmittedTitle) <= max_title_length
    /\ log = <<"warning", "info">>

-----------------------------------------------------------------------------
(* C10: abbreviate_title(title, L), for a title of segments joined by      *)
(* " | ", collapses the spaces around one delimiter per step, from the     *)
(* rightmost delimiter to the left, and stops at the first point where the *)
(* length is <= L: the result has exactly the k rightmost delimiters       *)
(* collapsed, k the least number for which the length is <= L, or all      *)
(* delimiters when no k suffices ("This | is | a | test | title" with      *)
(* L = 24 gives "This | is | a|test|title").                               *)

\* the segments the title passed to abbreviate_title was joined from
ArgSegments ==
    CHOOSE segs \in SegmentLists \cup {TestTitleSegments} : JoinSegments(segs) = arg.s

-----------------------------------------------------------------------------
(* C11: for every " | "-joined title t and limit L, abbreviate_title(t, L) *)
(* is t when L >= len(t); abbreviating the result again with L changes     *)
(* nothing; the result is never longer than t; and the result differs from *)
(* t only by deleted spaces adjacent to "|": the same number of "|", the   *)
(* same segments in the same order, no other character removed.            *)

\* piece is original, or original with whitespace removed at its edges only
EdgeTrimmed(piece, original) ==
    piece \in {original, LStripChars(original, Whitespace), RStrip(original),
               Strip(original)}

\* the characters of s that are not whitespace, in order
RECURSIVE NonWhitespace(_)
NonWhitespace(s) ==
    IF s = <<>> THEN <<>>
    ELSE IF Head(s) \in Whitespace THEN NonWhitespace(Tail(s))
    ELSE <<Head(s)>> \o NonWhitespace(Tail(s))

C11_IdempotentMonotonic ==
    (op = "abbreviate_title" /\ pc = "done") =>
        LET t == arg.s
            r == result.s
            before == Split(t, "|")
            after == Split(r, "|")
        IN  /\ max_title_length >= Len(t) => r = t
            /\ abbreviate_title(r, max_title_length) = r
            /\ Len(r) <= Len(t)
            /\ Len(after) = Len(before)
            /\ after[1] \in {before[1], RStrip(before[1])}
            /\ \A j \in 1..Len(before) : EdgeTrimmed(after[j], before[j])
            /\ NonWhitespace(r) = NonWhitespace(t)

C11_Witness ==
    /\ op = "abbreviate_title" /\ pc = "done"
    /\ Len(result.s) < Len(arg.s)
    /\ Len(result.s) <= max_title_length
    /\ Contains(result.s, <<" ", "|", " ">>)
    /\ Contains(result.s, <<"c", " ", "d", "|">>)
    /\ abbreviate_title(result.s, max_title_length) = result.s

-----------------------------------------------------------------------------
(* C12: in every goal line the home and away display names are the         *)
(* explicit home_team_abbrev / away_team_abbrev when one is supplied (a    *)
(* non-empty text) and split_team_name of the full name otherwise,         *)
(* independently for each side; the abbreviation never changes the title   *)
(* line or the final scoreline line, which carry the full team names.      *)
Supplied(abbrev) == abbrev.t = "str" /\ abbrev.s # <<>>

HomeDisplayName ==
    IF Supplied(game.home_team_abbrev) THEN game.home_team_abbrev.s
    ELSE split_team_name(game.home_team)
AwayDisplayName ==
    IF Supplied(game.away_team_abbrev) THEN game.away_team_abbrev.s
    ELSE split_team_name(game.away_team)

C12_DisplayNames ==
    Described =>
        /\ \A k \in 1..Len(Items) :
               Contains(GoalLines[k],
                        <<" ">> \o HomeDisplayName \o <<" ">> \o BracketedScore(k)
                        \o <<" ">> \o AwayDisplayName \o <<" ", "-", " ">>)
        /\ ScorelineLine = ExpectedFinalScoreline
        /\ RStrip(Split(TitleLine, "|")[1]) = ExpectedFinalScoreline

C12_Witness ==
    /\ Described
    /\ game.home_team = HomeTeam /\ game.away_team = MarkedAwayTeam
    /\ game.home_team_abbrev = StrVal(HomeAbbrev)
    /\ game.away_team_abbrev = NoneVal
    /\ Len(Items) = 2
    /\ Contains(GoalLines[2], <<" ", "B", "A", "S", " ", "[", "1", "]", "-", "1", " ", "C", "V", " ", "-", " ">>)
    /\ Contains(ScorelineLine, HomeTeam \o <<" ", "1", "-", "1", " ">> \o MarkedAwayTeam)

-----------------------------------------------------------------------------
(* C13: split_team_name returns the part of the team name before the first *)
(* year or age-group marker (two to four digits, optionally preceded or    *)
(* followed by one letter B or G) with the whitespace before the marker    *)
(* removed, and the full name when there is no marker; the result is a     *)
(* prefix of the input and splitting it again changes nothing.             *)
DigitPairAt(t, d) == d + 1 <= Len(t) /\ IsDigit(t[d]) /\ IsDigit(t[d + 1])
HasMarker(t) == \E d \in 1..Len(t) : DigitPairAt(t, d)
\* where the first marker begins: at its first digit, or at a B or G right before it
MarkerStart(t) ==
    LET d == CHOOSE e \in 1..Len(t) :
                 DigitPairAt(t, e) /\ \A f \in 1..(e - 1) : ~DigitPairAt(t, f)
    IN  IF d > 1 /\ t[d - 1] \in {"B", "G"} THEN d - 1 ELSE d
BeforeMarker(t) ==
    IF HasMarker(t) THEN RStrip(SubSeq(t, 1, MarkerStart(t) - 1)) ELSE t

C13_PartBeforeMarker ==
    (op = "split_team_name" /\ pc = "done") =>
        /\ result.s = BeforeMarker(arg.s)
        /\ Len(result.s) <= Len(arg.s)
        /\ result.s = SubSeq(arg.s, 1, Len(result.s))
        /\ split_team_name(result.s) = result.s

C13_Witness ==
    /\ op = "split_team_name" /\ pc = "done"
    /\ arg.s = <<"a", " ", "B", "1", "1", "a">>
    /\ result.s = <<"a">>

-----------------------------------------------------------------------------
(* Reading a parse                                                         *)

\* parse_all_fields has run up to the goal loop or has raised before it
HeadDone == op = "parse_all_fields" /\ pc # "head"
HeadRaised == op = "parse_all_fields" /\ pc = "raised" /\ i = 0
TitleRejected == HeadRaised /\ exc = "ValueError"
Parsed == op = "parse_all_fields" /\ pc = "done"

\* the places <<first, last>> of a score in a scoreline: a blank, a number of
\* one or two digits, ":" or "-" with at most one blank on each side, a number
\* of one or two digits, a blank
ScoreSpans(l) ==
    {<<p, p + d1 + w1 + 1 + w2 + d2 + 1>> :
        <<p, d1, w1, w2, d2>> \in
            {t \in (1..Len(l)) \X (1..2) \X (0..1) \X (0..1) \X (1..2) :
                LET at(k) == IF k <= Len(l) THEN l[k] ELSE ""
                    c == t[1] + t[2] + t[3] + 1
                    e == c + t[4] + t[5] + 1
                IN  /\ at(t[1]) = " "
                    /\ \A k \in (t[1] + 1)..(t[1] + t[2]) : IsDigit(at(k))
                    /\ \A k \in (t[1] + t[2] + 1)..(c - 1) : at(k) = " "
                    /\ at(c) \in {":", "-"}
                    /\ \A k \in (c + 1)..(c + t[4]) : at(k) = " "
                    /\ \A k \in (c + t[4] + 1)..(e - 1) : IsDigit(at(k))
                    /\ at(e) = " "}}

-----------------------------------------------------------------------------
(* C14: parse_all_fields takes home_team and away_team verbatim from the   *)
(* scoreline line for both shapes, "<home> NN : NN <away>" and             *)
(* "<home> NN-NN <away>" with scores of one or two digits: the text before *)
(* the score is home_team and the text after it is away_team; a scoreline  *)
(* line with no such score is a fatal error.                               *)
C14_ScorelineTeams ==
    (HeadDone /\ Len(strings) >= 2 /\ ~TitleRejected) =>
        IF ScoreSpans(strings[2]) # {}
        THEN /\ ~HeadRaised
             /\ \E span \in ScoreSpans(strings[2]) :
                    /\ game.home_team = SubSeq(strings[2], 1, span[1] - 1)
                    /\ game.away_team = SubSeq(strings[2], span[2] + 1, Len(strings[2]))
        ELSE HeadRaised /\ result = NoResult

-----------------------------------------------------------------------------
(* C15: the goal list returned by parse_all_fields holds exactly one Goal  *)
(* for each non-blank line after the scoreline line that begins with a     *)
(* M:SS or MM:SS timestamp, in the order of those lines and carrying that  *)
(* line's timestamp; every other line after the scoreline line gives no    *)
(* Goal and never causes an error.                                         *)
BeginsWithClock(l) ==
    \E m \in 1..2 :
        /\ Len(l) >= m + 3
        /\ AllDigits(SubSeq(l, 1, m))
        /\ l[m + 1] = ":"
        /\ AllDigits(SubSeq(l, m + 2, m + 3))

\* the non-blank lines of the text, without the blanks around them
TextLines == SelectSeq([k \in 1..Len(Split(arg.s, "\n")) |-> Strip(Split(arg.s, "\n")[k])],
                       LAMBDA l : l # <<>>)
ClockLines == SelectSeq(SubSeq(TextLines, 3, Len(TextLines)), BeginsWithClock)
FirstWord(l) == SubSeq(l, 1, CHOOSE k \in 1..Len(l) :
                                 /\ k = Len(l) \/ l[k + 1] = " "
                                 /\ \A j \in 1..k : l[j] # " ")

C15_OneGoalPerClockLine ==
    /\ Parsed =>
           /\ Len(result.goals) = Len(ClockLines)
           /\ \A k \in 1..Len(ClockLines) :
                  result.goals[k].timestamp = StrVal(FirstWord(ClockLines[k]))
    /\ (op = "parse_all_fields" /\ pc = "raised" /\ i >= 3) => BeginsWithClock(TextLines[i])

C15_Witness ==
    /\ Parsed
    /\ Len(TextLines) = 5
    /\ Len(result.goals) = 2
    /\ ~BeginsWithClock(TextLines[4])
    /\ result.goals[1].timestamp = StrVal(<<"7", ":", "4", "5">>)
    /\ result.goals[2].timestamp = StrVal(<<"1", "2", ":", "0", "5">>)

-----------------------------------------------------------------------------
(* C16: when the scoring-team token of a goal line matches neither         *)
(* home_team nor away_team above the similarity threshold, parse_goal      *)
(* raises a fatal parse error whose message identifies the token and both  *)
(* team names, and parse_all_fields returns no Game and no Goal list; when *)
(* a match exists the goal's scoring_team is "H" for home_team and "A" for *)
(* away_team.                                                              *)
HasToken(l) ==
    /\ Len(SplitOnce(l, <<" ">>)) = 2
    /\ Len(SplitOnce(SplitOnce(l, <<" ">>)[2], <<" ", "-", " ">>)) = 2
TokenOf(l) == SplitOnce(SplitOnce(l, <<" ">>)[2], <<" ", "-", " ">>)[1]
Unmatched(l) ==
    /\ BeginsWithClock(l) /\ HasToken(l)
    /\ ~CloseEnough(Ratio(game.home_team, TokenOf(l)))
    /\ ~CloseEnough(Ratio(game.away_team, TokenOf(l)))

C16_UnmatchedTokenReported ==
    (HeadDone /\ ~HeadRaised) =>
        /\ \A k \in 3..Len(strings) :
               Unmatched(strings[k]) =>
                   /\ i <= k
                   /\ (pc = "raised" /\ i = k) =>
                          /\ exc = "ValueError"
                          /\ Contains(exc_msg, TokenOf(strings[k]))
                          /\ Contains(exc_msg, game.home_team)
                          /\ Contains(exc_msg, game.away_team)
                          /\ result = NoResult
        /\ Parsed =>
               \A k \in 1..Len(ClockLines) :
                   /\ result.goals[k].scoring_team \in {"H", "A"}
                   /\ result.goals[k].scoring_team = "H" =>
                          CloseEnough(Ratio(game.home_team, TokenOf(ClockLines[k])))
                   /\ result.goals[k].scoring_team = "A" =>
                          CloseEnough(Ratio(game.away_team, TokenOf(ClockLines[k])))

-----------------------------------------------------------------------------
(* C18: parse_log_files_to_dataframe builds a table with exactly one row   *)
(* per goal of every input file with suffix .yaml that has a goals key, in *)
(* input file order and then goal order, every column holding the same     *)
(* number of entries; each row's scoring_team is the game's team name, the *)
(* home_team when the goal's scoring_team is "H" and the away_team when it *)
(* is "A", never the letter.                                               *)
TableBuilt == op = "parse_log_files_to_dataframe" /\ pc = "done"
Contributes(f) ==
    f.suffix = <<".", "y", "a", "m", "l">> /\ "goals" \in DOMAIN f.game_log

\* the <<file, goal>> pairs of the contributing files, in file then goal order
RECURSIVE ExpectedRows(_)
ExpectedRows(files) ==
    IF files = <<>> THEN <<>>
    ELSE (IF Contributes(Head(files))
          THEN [k \in 1..Len(Head(files).game_log.goals.items) |->
                   <<Head(files), Head(files).game_log.goals.items[k]>>]
          ELSE <<>>)
         \o ExpectedRows(Tail(files))

TableColumns ==
    {"file_name", "date", "division", "round", "home_team", "away_team",
     "scoring_team", "scoring_player", "assist_player", "timestamp"}

\* every .yaml file loads, and its goals, when it has the key, are a list
FilesLoad ==
    \A k \in 1..Len(yaml_files) :
        yaml_files[k].suffix = <<".", "y", "a", "m", "l">> =>
            /\ yaml_files[k].loads
            /\ "goals" \in DOMAIN yaml_files[k].game_log =>
                   ~yaml_files[k].game_log.goals.isNone

C18_OneRowPerGoal ==
    /\ (op = "parse_log_files_to_dataframe" /\ FilesLoad) => pc # "raised"
    /\ TableBuilt =>
        LET rows == ExpectedRows(yaml_files)
            table == result.columns
        IN  /\ rows # <<>> => DOMAIN table = TableColumns
            /\ \A c \in DOMAIN table : Len(table[c]) = Len(rows)
            /\ rows # <<>> =>
                   \A r \in 1..Len(rows) :
                       /\ table.file_name[r] = StrVal(rows[r][1].stem)
                       /\ table.scoring_player[r] = rows[r][2].scoring_player
                       /\ rows[r][2].scoring_team = "H" =>
                              table.scoring_team[r] = rows[r][1].game_log.home_team
                       /\ rows[r][2].scoring_team = "A" =>
                              table.scoring_team[r] = rows[r][1].game_log.away_team
                       /\ table.scoring_team[r].s \notin {<<"H">>, <<"A">>}

-----------------------------------------------------------------------------
(* C17: calls of soccer_game_description are independent and stateless:    *)
(* under any interleaving of the steps of two or more concurrent calls     *)
(* each call returns the same text as when run alone; no call writes the   *)
(* module-level shorthand table or modifies its Game or Goal arguments,    *)
(* and the running score of one call is never visible to another.          *)

\* the frame a call ends with when its steps run alone, one after the other
RECURSIVE RunAlone(_)
RunAlone(f) ==
    IF f.pc = "goals" /\ ~LoopDone(f) THEN RunAlone(FrameGoalStep(f, f.team_score))
    ELSE IF f.pc = "goals" THEN RunAlone(FrameComposeTitle(f))
    ELSE IF f.pc = "return" THEN FrameReturn(f)
    ELSE f

Arguments(f) == [game |-> f.game, goals |-> f.goals, limit |-> f.max_title_length]

\* the goals of team among the first k goals of a call
OwnTally(f, team, k) ==
    Cardinality({j \in 1..k : f.goals.items[j].scoring_team = team})

C17_SameAsAlone ==
    \A c \in DOMAIN calls :
        /\ calls[c].pc \in {"done", "raised"} =>
               LET alone == RunAlone(NewCall(Arguments(calls[c])))
               IN  /\ calls[c].result = alone.result
                   /\ calls[c].exc = alone.exc
                   /\ calls[c].pc = alone.pc
        /\ calls[c].pc \in {"goals", "return", "done"} =>
               /\ calls[c].team_score.H = OwnTally(calls[c], "H", calls[c].i - 1)
               /\ calls[c].team_score.A = OwnTally(calls[c], "A", calls[c].i - 1)

C17_NothingShared ==
    [][/\ scoring_abbrev_dict' = scoring_abbrev_dict
       /\ \A c \in DOMAIN calls : Arguments(calls'[c]) = Arguments(calls[c])]_vars

C17_Independent == []C17_SameAsAlone /\ C17_NothingShared

\* both calls have returned, the second one after its two goals were taken
\* while the first call had already scored
C17_Witness ==
    /\ op = "concurrent"
    /\ calls[1].pc = "done" /\ calls[2].pc = "done"
    /\ calls[1].team_score = [H |-> 1, A |-> 0]
    /\ calls[2].team_score = [H |-> 1, A |-> 1]
    /\ Contains(calls[2].result.s, <<" ", "0", "-", "[", "1", "]", " ">>)
    /\ Contains(calls[2].result.s, <<" ", "[", "1", "]", "-", "1", " ">>)
    /\ Contains(calls[1].result.s, <<" ", "[", "1", "]", "-", "0", " ">>)

====
